---- MODULE Spec2Model ----
(***************************************************************************)
(* The change-list interpreter of dodrio (js/change-list-interpreter.js,   *)
(* the variant with temporaries and templates, lines 1-377) as a state     *)
(* machine: the interpreter instance, the DOM subtree it manages, the      *)
(* shared linear memory the guest writes, and the DOM's event delivery.    *)
(*                                                                         *)
(* JavaScript values: a node reference is a positive integer (an index     *)
(* into dom), null is 0 and undefined is -1.  A string is the sequence of  *)
(* its code points; the undefined value in a string position is UndefStr.  *)
(***************************************************************************)
EXTENDS Integers, Sequences, FiniteSets, TLC

Null == 0
Undefined == -1

\* ---------------------------------------------------------------- bounds
\* Nodes the document may hold (the container and its subtree included).
MaxNodes == 7
\* addChangeListRange calls that succeed over a run.
MaxSubmit == 2

\* ---------------------------------------------------------------- strings
UndefStr == <<Undefined>>
NullStr == <<Null>>
S_undefined == <<117, 110, 100, 101, 102, 105, 110, 101, 100>>
S_null == <<110, 117, 108, 108>>
S_value == <<118, 97, 108, 117, 101>>
S_checked == <<99, 104, 101, 99, 107, 101, 100>>
S_selected == <<115, 101, 108, 101, 99, 116, 101, 100>>
S_class == <<99, 108, 97, 115, 115>>
S_click == <<99, 108, 105, 99, 107>>
S_input == <<105, 110, 112, 117, 116>>
S_div == <<100, 105, 118>>
S_p == <<112>>
S_a == <<97>>
S_hi == <<104, 105>>

\* JavaScript's ToString of a value in a string position (a DOMString
\* argument, a template literal).
ToStr(s) ==
  IF s = UndefStr THEN S_undefined ELSE IF s = NullStr THEN S_null ELSE s

\* ---------------------------------------------------------------- memory
\* The shared linear memory is a sequence of bytes; byte offset k is
\* element k + 1.  mem8 and mem32 are two views of the same buffer.
\* mem32[i]: the little-endian word at word index i, undefined outside the
\* buffer (a typed array read out of bounds).
Mem32(mem, i) ==
  IF i = Undefined \/ i < 0 \/ 4 * i + 4 > Len(mem) THEN Undefined
  ELSE mem[4 * i + 1] + 256 * mem[4 * i + 2] + 65536 * mem[4 * i + 3]
       + 16777216 * mem[4 * i + 4]

Min(a, b) == IF a < b THEN a ELSE b

\* mem.subarray(begin, end): both ends clamped to the buffer; undefined and
\* NaN count as 0.
Subarray(mem, pointer, length) ==
  LET begin == IF pointer = Undefined THEN 0 ELSE Min(pointer, Len(mem))
      stop == IF pointer = Undefined \/ length = Undefined THEN 0
              ELSE Min(pointer + length, Len(mem))
  IN  IF stop <= begin THEN <<>> ELSE SubSeq(mem, begin + 1, stop)

\* TextDecoder.decode for UTF-8, without the fatal flag: an ASCII byte is
\* its code point, a two-byte sequence is decoded, every other byte is
\* replaced by U+FFFD.  (Memory images hold no lead byte of a three- or
\* four-byte sequence.)
RECURSIVE Utf8Decode(_)
Utf8Decode(bytes) ==
  IF bytes = <<>> THEN <<>>
  ELSE LET b1 == bytes[1]
       IN  IF b1 < 128 THEN <<b1>> \o Utf8Decode(Tail(bytes))
           ELSE IF /\ b1 >= 194 /\ b1 <= 223 /\ Len(bytes) >= 2
                   /\ bytes[2] >= 128 /\ bytes[2] <= 191
                THEN <<(b1 - 192) * 64 + (bytes[2] - 128)>>
                     \o Utf8Decode(Tail(Tail(bytes)))
                ELSE <<65533>> \o Utf8Decode(Tail(bytes))

\* string(mem, pointer, length)
String(mem, pointer, length) == Utf8Decode(Subarray(mem, pointer, length))

\* The guest's encoding of a word and of an ASCII string.
WordBytes(w) ==
  <<w % 256, (w \div 256) % 256, (w \div 65536) % 256, (w \div 16777216) % 256>>

RECURSIVE WordsBytes(_)
WordsBytes(ws) ==
  IF ws = <<>> THEN <<>> ELSE WordBytes(Head(ws)) \o WordsBytes(Tail(ws))

\* ---------------------------------------------------------------- the DOM
\* The document is a sequence of node records; a node reference is its
\* index.  A node is never freed: a detached node stays while references to
\* it may exist.  The fields are the node's kind, its tag and namespace (an
\* element), its data (a text node), its child list, its attributes, its
\* value / checked / selected properties, the listeners registered on it in
\* registration order (<<type, callback>>), and the expando properties
\* dodrio-a-<type> and dodrio-b-<type>.
EmptyMap == <<>>

MapGet(f, k, default) == IF k \in DOMAIN f THEN f[k] ELSE default
MapSet(f, k, v) == [x \in DOMAIN f \cup {k} |-> IF x = k THEN v ELSE f[x]]
MapDelete(f, k) == [x \in DOMAIN f \ {k} |-> f[x]]

NewElement(tag, ns) ==
  [kind |-> "element", tag |-> tag, ns |-> ns, data |-> <<>>,
   children |-> <<>>, attrs |-> EmptyMap, value |-> UndefStr,
   checked |-> "unset", selected |-> "unset", listeners |-> <<>>,
   pa |-> EmptyMap, pb |-> EmptyMap]

NewText(data) ==
  [kind |-> "text", tag |-> <<>>, ns |-> <<>>, data |-> data,
   children |-> <<>>, attrs |-> EmptyMap, value |-> UndefStr,
   checked |-> "unset", selected |-> "unset", listeners |-> <<>>,
   pa |-> EmptyMap, pb |-> EmptyMap]

IsNode(d, v) == v \in 1..Len(d)
IsElement(d, v) == IsNode(d, v) /\ d[v].kind = "element"

InSeq(s, x) == \E k \in 1..Len(s) : s[k] = x
IndexOf(s, x) == CHOOSE k \in 1..Len(s) : s[k] = x
Without(s, x) == SelectSeq(s, LAMBDA y : y # x)

\* node.parentNode
ParentNode(d, n) ==
  IF \E p \in 1..Len(d) : InSeq(d[p].children, n)
  THEN CHOOSE p \in 1..Len(d) : InSeq(d[p].children, n)
  ELSE Null

LastChild(d, n) ==
  IF d[n].children = <<>> THEN Null ELSE d[n].children[Len(d[n].children)]

\* node.firstChild
FirstChild(d, n) ==
  IF d[n].children = <<>> THEN Null ELSE d[n].children[1]

\* node.nextSibling
NextSibling(d, n) ==
  LET p == ParentNode(d, n)
  IN  IF p = Null THEN Null
      ELSE LET cs == d[p].children
               k == IndexOf(cs, n)
           IN  IF k < Len(cs) THEN cs[k + 1] ELSE Null

\* node.childNodes[k], k counted from 0: undefined outside the list.
ChildAt(d, n, k) ==
  IF k # Undefined /\ k >= 0 /\ k < Len(d[n].children)
  THEN d[n].children[k + 1] ELSE Undefined

\* a is n or an ancestor of n.
RECURSIVE IsInclusiveAncestor(_, _, _)
IsInclusiveAncestor(d, a, n) ==
  IF n = Null THEN FALSE
  ELSE IF a = n THEN TRUE
  ELSE IsInclusiveAncestor(d, a, ParentNode(d, n))

\* node.remove(): detach from the parent, if any.
RemoveNode(d, n) ==
  [p \in 1..Len(d) |-> [d[p] EXCEPT !.children = Without(@, n)]]

\* The DOM's "insert node into parent before ref" (ref = Null: append),
\* after its validity checks: the node leaves its old place first.
InsertNode(d, parent, node, ref) ==
  LET r == IF ref = node THEN NextSibling(d, node) ELSE ref
      d1 == RemoveNode(d, node)
      cs == d1[parent].children
      k == IF r # Null /\ InSeq(cs, r) THEN IndexOf(cs, r)
           ELSE Len(cs) + 1
  IN  [d1 EXCEPT ![parent].children =
         SubSeq(cs, 1, k - 1) \o <<node>> \o SubSeq(cs, k, Len(cs))]

\* node.textContent = str: a text node's data is replaced; an element's
\* children are all removed and, for a non-empty string, replaced by one new
\* text node.
SetTextContent(d, n, str) ==
  IF d[n].kind = "text" THEN [d EXCEPT ![n].data = str]
  ELSE IF str = <<>> THEN [d EXCEPT ![n].children = <<>>]
  ELSE Append([d EXCEPT ![n].children = <<Len(d) + 1>>], NewText(str))

\* The nodes of the subtree of n in document order.
RECURSIVE SubtreeOf(_, _)
RECURSIVE SubtreesOf(_, _)
SubtreeOf(d, n) == <<n>> \o SubtreesOf(d, d[n].children)
SubtreesOf(d, ns) ==
  IF ns = <<>> THEN <<>>
  ELSE SubtreeOf(d, Head(ns)) \o SubtreesOf(d, Tail(ns))

\* The structure of the subtree of n: what two nodes that are structurally
\* equal have in common.
RECURSIVE Shape(_, _)
Shape(d, n) ==
  [kind |-> d[n].kind, tag |-> d[n].tag, ns |-> d[n].ns, data |-> d[n].data,
   attrs |-> d[n].attrs,
   children |-> [k \in 1..Len(d[n].children) |-> Shape(d, d[n].children[k])]]

\* node.cloneNode(true): the copies are appended to the document, the copy
\* of n first (its reference is Len(d) + 1).  A copy has the original's kind,
\* tag, namespace, data and attributes and copies of its children; listeners
\* and expando properties are not copied.
CloneNode(d, n) ==
  LET nodes == SubtreeOf(d, n)
      copyOf(x) == Len(d) + IndexOf(nodes, x)
      copy(x) ==
        [d[x] EXCEPT
           !.children = [k \in 1..Len(d[x].children) |-> copyOf(d[x].children[k])],
           !.listeners = <<>>, !.pa = EmptyMap, !.pb = EmptyMap,
           !.value = UndefStr, !.checked = "unset", !.selected = "unset"]
  IN  d \o [k \in 1..Len(nodes) |-> copy(nodes[k])]

\* ---------------------------------------------------------------- opcodes
\* An opcode handler maps the machine state m (the fields of the interpreter
\* an opcode may touch, the document, the buffer behind mem8 and mem32, and
\* the word index i just after the opcode word) to the machine state it
\* leaves, i advanced past its operands.  threw is set when the handler throws: the fields then hold
\* what the handler had done before the throw.  mem is the shared memory and
\* h the interpreter's eventHandler.
Top(stack) == IF stack = <<>> THEN Undefined ELSE stack[Len(stack)]

\* Array.prototype.pop: undefined from an empty array, which stays empty.
PopRest(stack) ==
  IF stack = <<>> THEN <<>> ELSE SubSeq(stack, 1, Len(stack) - 1)

Throw(m) == [m EXCEPT !.threw = TRUE]

\* Map.prototype.get on the string cache
GetCachedString(strings, id) == MapGet(strings, id, UndefStr)

\* An attribute or element name the DOM accepts (the Name production, for
\* the strings the memory images hold: any non-empty string).
ValidName(name) == name # <<>>

\* 0
OpSetText(m, mem, h) ==
  LET pointer == Mem32(mem, m.i)
      length == Mem32(mem, m.i + 1)
      str == String(mem, pointer, length)
      node == Top(m.stack)
  IN  IF ~IsNode(m.dom, node) THEN Throw(m)
      ELSE [m EXCEPT !.dom = SetTextContent(m.dom, node, str), !.i = m.i + 2]

\* The siblings after n, n first.
SelfAndNextSiblings(d, n) ==
  LET p == ParentNode(d, n)
  IN  IF p = Null THEN <<n>>
      ELSE SubSeq(d[p].children, IndexOf(d[p].children, n), Len(d[p].children))

RECURSIVE RemoveAll(_, _)
RemoveAll(d, ns) ==
  IF ns = <<>> THEN d ELSE RemoveAll(RemoveNode(d, Head(ns)), Tail(ns))

OpRemoveSelfOnly(m, mem, h) ==
  LET node == Top(m.stack)
      m1 == [m EXCEPT !.stack = PopRest(m.stack)]
  IN  IF ~IsNode(m.dom, node) THEN Throw(m1)
      ELSE [m1 EXCEPT !.dom = RemoveNode(m.dom, node)]

\* 1
OpRemoveSelfAndNextSiblings(m, mem, h) ==
  LET node == Top(m.stack)
      m1 == [m EXCEPT !.stack = PopRest(m.stack)]
  IN  IF ~IsNode(m.dom, node) THEN Throw(m1)
      ELSE LET gone == SelfAndNextSiblings(m.dom, node)
           IN  [m1 EXCEPT !.dom = RemoveAll(m.dom, Tail(gone) \o <<node>>)]

\* oldNode.replaceWith(newNode), oldNode a node with parent p: a value that
\* is no node is converted to a text node holding its string.
ReplaceWithDom(d, oldNode, newNode) ==
  LET p == ParentNode(d, oldNode)
      d1 == IF IsNode(d, newNode) THEN d
            ELSE Append(d, NewText(IF newNode = Null THEN S_null ELSE S_undefined))
      node == IF IsNode(d, newNode) THEN newNode ELSE Len(d) + 1
  IN  IF node = oldNode THEN d1
      ELSE RemoveNode(InsertNode(d1, p, node, oldNode), oldNode)

\* 2
OpReplaceWith(m, mem, h) ==
  LET newNode == Top(m.stack)
      s1 == PopRest(m.stack)
      oldNode == Top(s1)
      m2 == [m EXCEPT !.stack = PopRest(s1)]
  IN  IF ~IsNode(m.dom, oldNode) THEN Throw(m2)
      ELSE IF ParentNode(m.dom, oldNode) = Null
      THEN [m2 EXCEPT !.stack = Append(m2.stack, newNode)]
      ELSE IF /\ IsNode(m.dom, newNode)
              /\ IsInclusiveAncestor(m.dom, newNode, ParentNode(m.dom, oldNode))
      THEN Throw(m2)
      ELSE [m2 EXCEPT !.dom = ReplaceWithDom(m.dom, oldNode, newNode),
                      !.stack = Append(m2.stack, newNode)]

OpSetAttributeNoProperty(m, mem, h) ==
  LET name == GetCachedString(m.strings, Mem32(mem, m.i))
      value == GetCachedString(m.strings, Mem32(mem, m.i + 1))
      node == Top(m.stack)
  IN  IF ~IsElement(m.dom, node) \/ ~ValidName(ToStr(name)) THEN Throw(m)
      ELSE [m EXCEPT !.dom[node].attrs = MapSet(@, ToStr(name), ToStr(value)),
                     !.i = m.i + 2]

OpSetAttributeNameTwice(m, mem, h) ==
  LET name == GetCachedString(m.strings, Mem32(mem, m.i))
      node == Top(m.stack)
  IN  IF ~IsElement(m.dom, node) \/ ~ValidName(ToStr(name)) THEN Throw(m)
      ELSE [m EXCEPT
              !.dom[node].attrs = MapSet(@, ToStr(name), ToStr(name)),
              !.dom[node].value = IF name = S_value THEN name ELSE @,
              !.dom[node].checked = IF name = S_checked THEN "true" ELSE @,
              !.dom[node].selected = IF name = S_selected THEN "true" ELSE @,
              !.i = m.i + 2]

\* 3
OpSetAttribute(m, mem, h) ==
  LET nameId == Mem32(mem, m.i)
      valueId == Mem32(mem, m.i + 1)
      name == GetCachedString(m.strings, nameId)
      value == GetCachedString(m.strings, valueId)
      node == Top(m.stack)
  IN  IF ~IsElement(m.dom, node) \/ ~ValidName(ToStr(name)) THEN Throw(m)
      ELSE [m EXCEPT
              !.dom[node].attrs = MapSet(@, ToStr(name), ToStr(value)),
              !.dom[node].value = IF name = S_value THEN value ELSE @,
              !.dom[node].checked = IF name = S_checked THEN "true" ELSE @,
              !.dom[node].selected = IF name = S_selected THEN "true" ELSE @,
              !.i = m.i + 2]

\* 4
OpRemoveAttribute(m, mem, h) ==
  LET nameId == Mem32(mem, m.i)
      name == GetCachedString(m.strings, nameId)
      node == Top(m.stack)
  IN  IF ~IsElement(m.dom, node) THEN Throw(m)
      ELSE [m EXCEPT
              !.dom[node].attrs = MapDelete(@, ToStr(name)),
              !.dom[node].value = IF name = S_value THEN NullStr ELSE @,
              !.dom[node].checked = IF name = S_checked THEN "false" ELSE @,
              !.dom[node].selected = IF name = S_selected THEN "false" ELSE @,
              !.i = m.i + 1]

\* children[children.length - n - 1]
ReverseChildAt(d, parent, n) ==
  IF n = Undefined THEN Undefined
  ELSE ChildAt(d, parent, Len(d[parent].children) - n - 1)

\* 5
OpPushReverseChild(m, mem, h) ==
  LET n == Mem32(mem, m.i)
      parent == Top(m.stack)
  IN  IF ~IsNode(m.dom, parent) THEN Throw(m)
      ELSE [m EXCEPT !.stack = Append(m.stack, ReverseChildAt(m.dom, parent, n)),
                     !.i = m.i + 1]

\* 6
OpPopPushChild(m, mem, h) ==
  LET n == Mem32(mem, m.i)
      m1 == [m EXCEPT !.stack = PopRest(m.stack)]
      parent == Top(m1.stack)
  IN  IF ~IsNode(m.dom, parent) THEN Throw(m1)
      ELSE [m1 EXCEPT !.stack = Append(m1.stack, ChildAt(m.dom, parent, n)),
                      !.i = m.i + 1]

\* 7
OpPop(m, mem, h) == [m EXCEPT !.stack = PopRest(m.stack)]

OpAppendChildPoppingLast(m, mem, h) ==
  LET child == Top(m.stack)
      parent == Top(PopRest(m.stack))
  IN  IF \/ ~IsElement(m.dom, parent)
         \/ ~IsNode(m.dom, child)
         \/ IsInclusiveAncestor(m.dom, child, parent)
      THEN Throw(m)
      ELSE [m EXCEPT !.dom = InsertNode(m.dom, parent, child, Null),
                     !.stack = PopRest(m.stack)]

\* 8
OpAppendChild(m, mem, h) ==
  LET child == Top(m.stack)
      m1 == [m EXCEPT !.stack = PopRest(m.stack)]
      parent == Top(m1.stack)
  IN  IF \/ ~IsElement(m.dom, parent)
         \/ ~IsNode(m.dom, child)
         \/ IsInclusiveAncestor(m.dom, child, parent)
      THEN Throw(m1)
      ELSE [m1 EXCEPT !.dom = InsertNode(m.dom, parent, child, Null)]

OpCreateTextNodeClearingLength(m, mem, h) ==
  LET text == String(mem, Mem32(mem, m.i), Mem32(mem, m.i + 1))
  IN  [m EXCEPT !.dom = Append(m.dom, NewText(text)),
                !.stack = Append(m.stack, Len(m.dom) + 1),
                !.mem[4 * (m.i + 1) + 1] = 0,
                !.i = m.i + 2]

\* 9
OpCreateTextNode(m, mem, h) ==
  LET pointer == Mem32(mem, m.i)
      length == Mem32(mem, m.i + 1)
      text == String(mem, pointer, length)
  IN  [m EXCEPT !.dom = Append(m.dom, NewText(text)),
                !.stack = Append(m.stack, Len(m.dom) + 1),
                !.i = m.i + 2]

\* 10
OpCreateElement(m, mem, h) ==
  LET tagNameId == Mem32(mem, m.i)
      tagName == GetCachedString(m.strings, tagNameId)
  IN  IF ~ValidName(ToStr(tagName)) THEN Throw(m)
      ELSE [m EXCEPT !.dom = Append(m.dom, NewElement(ToStr(tagName), <<>>)),
                     !.stack = Append(m.stack, Len(m.dom) + 1),
                     !.i = m.i + 1]

AddEventListenerAgain(listeners, type, callback) ==
  IF callback = Undefined THEN listeners
  ELSE Append(listeners, <<type, callback>>)

\* el.addEventListener(type, callback): nothing for an undefined callback or
\* for a listener with this type and callback already registered.
AddEventListener(listeners, type, callback) ==
  IF callback = Undefined \/ InSeq(listeners, <<type, callback>>)
  THEN listeners
  ELSE Append(listeners, <<type, callback>>)

\* el.removeEventListener(type, callback)
RemoveEventListener(listeners, type, callback) ==
  Without(listeners, <<type, callback>>)

\* 11
OpNewEventListener(m, mem, h) ==
  LET eventId == Mem32(mem, m.i)
      eventType == ToStr(GetCachedString(m.strings, eventId))
      a == Mem32(mem, m.i + 1)
      b == Mem32(mem, m.i + 2)
      el == Top(m.stack)
  IN  IF ~IsNode(m.dom, el) THEN Throw(m)
      ELSE [m EXCEPT
              !.dom[el].listeners = AddEventListener(@, eventType, h),
              !.dom[el].pa = MapSet(@, eventType, a),
              !.dom[el].pb = MapSet(@, eventType, b),
              !.i = m.i + 3]

OpUpdateAndRegister(m, mem, h) ==
  LET eventId == Mem32(mem, m.i)
      eventType == ToStr(GetCachedString(m.strings, eventId))
      el == Top(m.stack)
  IN  IF ~IsNode(m.dom, el) THEN Throw(m)
      ELSE [m EXCEPT
              !.dom[el].listeners = AddEventListener(@, eventType, h),
              !.dom[el].pa = MapSet(@, eventType, Mem32(mem, m.i + 1)),
              !.dom[el].pb = MapSet(@, eventType, Mem32(mem, m.i + 2)),
              !.i = m.i + 3]

\* 12
OpUpdateEventListener(m, mem, h) ==
  LET eventId == Mem32(mem, m.i)
      eventType == ToStr(GetCachedString(m.strings, eventId))
      el == Top(m.stack)
  IN  IF ~IsNode(m.dom, el) THEN Throw(m)
      ELSE [m EXCEPT
              !.dom[el].pa = MapSet(@, eventType, Mem32(mem, m.i + 1)),
              !.dom[el].pb = MapSet(@, eventType, Mem32(mem, m.i + 2)),
              !.i = m.i + 3]

OpRemoveNothing(m, mem, h) ==
  IF ~IsNode(m.dom, Top(m.stack)) THEN Throw(m) ELSE [m EXCEPT !.i = m.i + 1]

\* 13
OpRemoveEventListener(m, mem, h) ==
  LET eventId == Mem32(mem, m.i)
      eventType == ToStr(GetCachedString(m.strings, eventId))
      el == Top(m.stack)
  IN  IF ~IsNode(m.dom, el) THEN Throw(m)
      ELSE [m EXCEPT
              !.dom[el].listeners = RemoveEventListener(@, eventType, h),
              !.i = m.i + 1]

\* 14
OpAddCachedStringOnce(m, mem, h) ==
  LET id == Mem32(mem, m.i + 2)
      str == String(mem, Mem32(mem, m.i), Mem32(mem, m.i + 1))
  IN  [m EXCEPT !.strings = IF id \in DOMAIN @ THEN @ ELSE MapSet(@, id, str),
                !.i = m.i + 3]

OpAddCachedString(m, mem, h) ==
  LET pointer == Mem32(mem, m.i)
      length == Mem32(mem, m.i + 1)
      id == Mem32(mem, m.i + 2)
      str == String(mem, pointer, length)
  IN  [m EXCEPT !.strings = MapSet(@, id, str), !.i = m.i + 3]

\* 15
OpDropCachedString(m, mem, h) ==
  LET id == Mem32(mem, m.i)
  IN  [m EXCEPT !.strings = MapDelete(@, id), !.i = m.i + 1]

\* 16
OpCreateElementNS(m, mem, h) ==
  LET tagNameId == Mem32(mem, m.i)
      tagName == GetCachedString(m.strings, tagNameId)
      nsId == Mem32(mem, m.i + 1)
      ns == GetCachedString(m.strings, nsId)
  IN  IF ~ValidName(ToStr(tagName)) THEN Throw(m)
      ELSE [m EXCEPT
              !.dom = Append(m.dom, NewElement(ToStr(tagName),
                                               IF ns = UndefStr THEN <<>> ELSE ns)),
              !.stack = Append(m.stack, Len(m.dom) + 1),
              !.i = m.i + 2]

\* interpreter.temporaries[temp++] = children[i], for i from start to end - 1
RECURSIVE SaveChildren(_, _, _, _, _, _)
SaveChildren(temporaries, d, parent, temp, i, end) ==
  IF i = Undefined \/ end = Undefined \/ ~(i < end) THEN temporaries
  ELSE SaveChildren(MapSet(temporaries, temp, ChildAt(d, parent, i)),
                    d, parent, temp + 1, i + 1, end)

OpSaveChildrenClearingSlots(m, mem, h) ==
  LET temp == Mem32(mem, m.i)
      start == Mem32(mem, m.i + 1)
      end == Mem32(mem, m.i + 2)
      parent == Top(m.stack)
  IN  IF ~IsNode(m.dom, parent) THEN Throw(m)
      ELSE [m EXCEPT
              !.temporaries = SaveChildren(EmptyMap, m.dom, parent, temp, start, end),
              !.i = m.i + 3]

OpSaveChildrenReturningLoopIndex(m, mem, h) ==
  LET temp == Mem32(mem, m.i)
      start == Mem32(mem, m.i + 1)
      end == Mem32(mem, m.i + 2)
      parent == Top(m.stack)
  IN  IF ~IsNode(m.dom, parent) THEN Throw(m)
      ELSE [m EXCEPT
              !.temporaries = SaveChildren(@, m.dom, parent, temp, start, end),
              !.i = IF start < end THEN end ELSE start]

\* 17
OpSaveChildrenToTemporaries(m, mem, h) ==
  LET temp == Mem32(mem, m.i)
      start == Mem32(mem, m.i + 1)
      end == Mem32(mem, m.i + 2)
      parent == Top(m.stack)
  IN  IF ~IsNode(m.dom, parent) THEN Throw(m)
      ELSE [m EXCEPT
              !.temporaries = SaveChildren(@, m.dom, parent, temp, start, end),
              !.i = m.i + 3]

\* 18
OpPushChild(m, mem, h) ==
  LET parent == Top(m.stack)
      n == Mem32(mem, m.i)
  IN  IF ~IsNode(m.dom, parent) THEN Throw(m)
      ELSE [m EXCEPT !.stack = Append(m.stack, ChildAt(m.dom, parent, n)),
                     !.i = m.i + 1]

\* 19
OpPushTemporary(m, mem, h) ==
  LET temp == Mem32(mem, m.i)
  IN  [m EXCEPT !.stack = Append(m.stack, MapGet(m.temporaries, temp, Undefined)),
                !.i = m.i + 1]

OpInsertBeforeAppending(m, mem, h) ==
  LET before == Top(m.stack)
      s1 == PopRest(m.stack)
      after == Top(s1)
      m2 == [m EXCEPT !.stack = PopRest(s1)]
  IN  IF \/ ~IsNode(m.dom, after)
         \/ ParentNode(m.dom, after) = Null
         \/ ~IsNode(m.dom, before)
         \/ IsInclusiveAncestor(m.dom, before, ParentNode(m.dom, after))
      THEN Throw(m2)
      ELSE [m2 EXCEPT
              !.dom = InsertNode(m.dom, ParentNode(m.dom, after), before, Null),
              !.stack = Append(m2.stack, before)]

\* 20
OpInsertBefore(m, mem, h) ==
  LET before == Top(m.stack)
      s1 == PopRest(m.stack)
      after == Top(s1)
      m2 == [m EXCEPT !.stack = PopRest(s1)]
  IN  IF \/ ~IsNode(m.dom, after)
         \/ ParentNode(m.dom, after) = Null
         \/ ~IsNode(m.dom, before)
         \/ IsInclusiveAncestor(m.dom, before, ParentNode(m.dom, after))
      THEN Throw(m2)
      ELSE [m2 EXCEPT
              !.dom = InsertNode(m.dom, ParentNode(m.dom, after), before, after),
              !.stack = Append(m2.stack, before)]

\* 21
OpPopPushReverseChild(m, mem, h) ==
  LET n == Mem32(mem, m.i)
      m1 == [m EXCEPT !.stack = PopRest(m.stack)]
      parent == Top(m1.stack)
  IN  IF ~IsNode(m.dom, parent) THEN Throw(m1)
      ELSE [m1 EXCEPT !.stack = Append(m1.stack, ReverseChildAt(m.dom, parent, n)),
                      !.i = m.i + 1]

\* 22
OpRemoveChild(m, mem, h) ==
  LET n == Mem32(mem, m.i)
      parent == Top(m.stack)
  IN  IF ~IsNode(m.dom, parent) THEN Throw(m)
      ELSE LET child == ChildAt(m.dom, parent, n)
           IN  IF ~IsNode(m.dom, child) THEN Throw(m)
               ELSE [m EXCEPT !.dom = RemoveNode(m.dom, child), !.i = m.i + 1]

\* 23
OpSetClass(m, mem, h) ==
  LET classId == Mem32(mem, m.i)
      className == GetCachedString(m.strings, classId)
      node == Top(m.stack)
  IN  IF ~IsNode(m.dom, node) THEN Throw(m)
      ELSE IF ~IsElement(m.dom, node) THEN [m EXCEPT !.i = m.i + 1]
      ELSE [m EXCEPT !.dom[node].attrs = MapSet(@, S_class, ToStr(className)),
                     !.i = m.i + 1]

OpSaveTemplateNoCopy(m, mem, h) ==
  LET id == Mem32(mem, m.i)
      template == Top(m.stack)
  IN  IF ~IsNode(m.dom, template) THEN Throw(m)
      ELSE [m EXCEPT !.templates = MapSet(@, id, template), !.i = m.i + 1]

\* 24
OpSaveTemplate(m, mem, h) ==
  LET id == Mem32(mem, m.i)
      template == Top(m.stack)
  IN  IF ~IsNode(m.dom, template) THEN Throw(m)
      ELSE [m EXCEPT !.dom = CloneNode(m.dom, template),
                     !.templates = MapSet(@, id, Len(m.dom) + 1),
                     !.i = m.i + 1]

\* 25
OpPushTemplate(m, mem, h) ==
  LET id == Mem32(mem, m.i)
      template == MapGet(m.templates, id, Undefined)
  IN  IF ~IsNode(m.dom, template) THEN Throw(m)
      ELSE [m EXCEPT !.dom = CloneNode(m.dom, template),
                     !.stack = Append(m.stack, Len(m.dom) + 1),
                     !.i = m.i + 1]

\* The number of entries of OP_TABLE.
NumOps == 26

OpTableSkippingUnknown(op, m, mem, h) ==
  CASE op = 0 -> OpSetText(m, mem, h)
    [] op = 1 -> OpRemoveSelfAndNextSiblings(m, mem, h)
    [] op = 2 -> OpReplaceWith(m, mem, h)
    [] op = 3 -> OpSetAttribute(m, mem, h)
    [] op = 4 -> OpRemoveAttribute(m, mem, h)
    [] op = 5 -> OpPushReverseChild(m, mem, h)
    [] op = 6 -> OpPopPushChild(m, mem, h)
    [] op = 7 -> OpPop(m, mem, h)
    [] op = 8 -> OpAppendChild(m, mem, h)
    [] op = 9 -> OpCreateTextNode(m, mem, h)
    [] op = 10 -> OpCreateElement(m, mem, h)
    [] op = 11 -> OpNewEventListener(m, mem, h)
    [] op = 12 -> OpUpdateEventListener(m, mem, h)
    [] op = 13 -> OpRemoveEventListener(m, mem, h)
    [] op = 14 -> OpAddCachedString(m, mem, h)
    [] op = 15 -> OpDropCachedString(m, mem, h)
    [] op = 16 -> OpCreateElementNS(m, mem, h)
    [] op = 17 -> OpSaveChildrenToTemporaries(m, mem, h)
    [] op = 18 -> OpPushChild(m, mem, h)
    [] op = 19 -> OpPushTemporary(m, mem, h)
    [] op = 20 -> OpInsertBefore(m, mem, h)
    [] op = 21 -> OpPopPushReverseChild(m, mem, h)
    [] op = 22 -> OpRemoveChild(m, mem, h)
    [] op = 23 -> OpSetClass(m, mem, h)
    [] op = 24 -> OpSaveTemplate(m, mem, h)
    [] op = 25 -> OpPushTemplate(m, mem, h)
    [] OTHER -> m

\* OP_TABLE[op](interpreter, mem8, mem32, i): calling the undefined entry of
\* a word that is no index of the table throws.
OpTable(op, m, mem, h) ==
  CASE op = 0 -> OpSetText(m, mem, h)
    [] op = 1 -> OpRemoveSelfAndNextSiblings(m, mem, h)
    [] op = 2 -> OpReplaceWith(m, mem, h)
    [] op = 3 -> OpSetAttribute(m, mem, h)
    [] op = 4 -> OpRemoveAttribute(m, mem, h)
    [] op = 5 -> OpPushReverseChild(m, mem, h)
    [] op = 6 -> OpPopPushChild(m, mem, h)
    [] op = 7 -> OpPop(m, mem, h)
    [] op = 8 -> OpAppendChild(m, mem, h)
    [] op = 9 -> OpCreateTextNode(m, mem, h)
    [] op = 10 -> OpCreateElement(m, mem, h)
    [] op = 11 -> OpNewEventListener(m, mem, h)
    [] op = 12 -> OpUpdateEventListener(m, mem, h)
    [] op = 13 -> OpRemoveEventListener(m, mem, h)
    [] op = 14 -> OpAddCachedString(m, mem, h)
    [] op = 15 -> OpDropCachedString(m, mem, h)
    [] op = 16 -> OpCreateElementNS(m, mem, h)
    [] op = 17 -> OpSaveChildrenToTemporaries(m, mem, h)
    [] op = 18 -> OpPushChild(m, mem, h)
    [] op = 19 -> OpPushTemporary(m, mem, h)
    [] op = 20 -> OpInsertBefore(m, mem, h)
    [] op = 21 -> OpPopPushReverseChild(m, mem, h)
    [] op = 22 -> OpRemoveChild(m, mem, h)
    [] op = 23 -> OpSetClass(m, mem, h)
    [] op = 24 -> OpSaveTemplate(m, mem, h)
    [] op = 25 -> OpPushTemplate(m, mem, h)
    [] OTHER -> Throw(m)

\* The opcodes of js/change-list.js (its first OP_TABLE) that take their
\* strings inline, as a pointer and a length, where the interpreter takes
\* the id of a cached string.
\* 3
InlineSetAttribute(m, mem, h) ==
  LET name == String(mem, Mem32(mem, m.i), Mem32(mem, m.i + 1))
      value == String(mem, Mem32(mem, m.i + 2), Mem32(mem, m.i + 3))
      node == Top(m.stack)
  IN  IF ~IsElement(m.dom, node) \/ ~ValidName(name) THEN Throw(m)
      ELSE [m EXCEPT !.dom[node].attrs = MapSet(@, name, value),
                     !.i = m.i + 4]

\* 4
InlineRemoveAttribute(m, mem, h) ==
  LET name == String(mem, Mem32(mem, m.i), Mem32(mem, m.i + 1))
      node == Top(m.stack)
  IN  IF ~IsElement(m.dom, node) THEN Throw(m)
      ELSE [m EXCEPT !.dom[node].attrs = MapDelete(@, name), !.i = m.i + 2]

\* 10
InlineCreateElement(m, mem, h) ==
  LET tagName == String(mem, Mem32(mem, m.i), Mem32(mem, m.i + 1))
  IN  IF ~ValidName(tagName) THEN Throw(m)
      ELSE [m EXCEPT !.dom = Append(m.dom, NewElement(tagName, <<>>)),
                     !.stack = Append(m.stack, Len(m.dom) + 1),
                     !.i = m.i + 2]

\* ------------------------------------------- the sibling-walk interpreter
\* The interpreter of unnamed/part_000: its OP_TABLE has the handlers 0-4
\* and 7-16 of the table above (getString for getCachedString), and these
\* three.
OpPushFirstChildOrSelf(m, mem, h) ==
  LET node == Top(m.stack)
  IN  IF ~IsNode(m.dom, node) THEN Throw(m)
      ELSE [m EXCEPT !.stack = Append(m.stack,
                                      IF FirstChild(m.dom, node) = Null THEN node
                                      ELSE FirstChild(m.dom, node))]

OpPushFirstChildThrowingOnNone(m, mem, h) ==
  LET node == Top(m.stack)
  IN  IF ~IsNode(m.dom, node) \/ FirstChild(m.dom, node) = Null THEN Throw(m)
      ELSE [m EXCEPT !.stack = Append(m.stack, FirstChild(m.dom, node))]

\* 5
OpPushFirstChild(m, mem, h) ==
  LET node == Top(m.stack)
  IN  IF ~IsNode(m.dom, node) THEN Throw(m)
      ELSE [m EXCEPT !.stack = Append(m.stack, FirstChild(m.dom, node))]

\* 6
OpPopPushNextSibling(m, mem, h) ==
  LET node == Top(m.stack)
      m1 == [m EXCEPT !.stack = PopRest(m.stack)]
  IN  IF ~IsNode(m.dom, node) THEN Throw(m1)
      ELSE [m1 EXCEPT !.stack = Append(m1.stack, NextSibling(m.dom, node))]

\* 17
OpSetAttributeNS(m, mem, h) ==
  LET nameId == Mem32(mem, m.i)
      valueId == Mem32(mem, m.i + 1)
      name == GetCachedString(m.strings, nameId)
      value == GetCachedString(m.strings, valueId)
      node == Top(m.stack)
  IN  IF ~IsElement(m.dom, node) \/ ~ValidName(ToStr(name)) THEN Throw(m)
      ELSE [m EXCEPT !.dom[node].attrs = MapSet(@, ToStr(name), ToStr(value)),
                     !.i = m.i + 2]

NumOpsWalk == 18

OpTableWalk(op, m, mem, h) ==
  CASE op = 0 -> OpSetText(m, mem, h)
    [] op = 1 -> OpRemoveSelfAndNextSiblings(m, mem, h)
    [] op = 2 -> OpReplaceWith(m, mem, h)
    [] op = 3 -> OpSetAttribute(m, mem, h)
    [] op = 4 -> OpRemoveAttribute(m, mem, h)
    [] op = 5 -> OpPushFirstChild(m, mem, h)
    [] op = 6 -> OpPopPushNextSibling(m, mem, h)
    [] op = 7 -> OpPop(m, mem, h)
    [] op = 8 -> OpAppendChild(m, mem, h)
    [] op = 9 -> OpCreateTextNode(m, mem, h)
    [] op = 10 -> OpCreateElement(m, mem, h)
    [] op = 11 -> OpNewEventListener(m, mem, h)
    [] op = 12 -> OpUpdateEventListener(m, mem, h)
    [] op = 13 -> OpRemoveEventListener(m, mem, h)
    [] op = 14 -> OpAddCachedString(m, mem, h)
    [] op = 15 -> OpDropCachedString(m, mem, h)
    [] op = 16 -> OpCreateElementNS(m, mem, h)
    [] op = 17 -> OpSetAttributeNS(m, mem, h)
    [] OTHER -> Throw(m)

\* ------------------------------------------ the sibling-index interpreter
\* The second interpreter of js/change-list-interpreter.js (lines 379-691).
\* A sibling index is a JavaScript number or undefined: <<k>> is the number
\* k, <<>> is undefined, NotANumber is NaN.
NoIndex == <<>>
NotANumber == <<0, 0>>
Index(k) == <<k>>
IsNumber(x) == Len(x) = 1

\* A word read from mem32, as a number or undefined.
WordIndex(w) == IF w = Undefined THEN NoIndex ELSE Index(w)

\* a + b on two such values
Plus(a, b) ==
  IF IsNumber(a) /\ IsNumber(b) THEN Index(a[1] + b[1]) ELSE NotANumber

\* node.childNodes[x]
ChildAtIndex(d, n, x) ==
  IF IsNumber(x) THEN ChildAt(d, n, x[1]) ELSE Undefined

\* push(node, siblingIndex)
Push(m, node, siblingIndex) ==
  [m EXCEPT !.stack = Append(m.stack, node),
            !.siblingIndices = Append(m.siblingIndices, siblingIndex)]

\* pop(): what it leaves; it returns Top(m.stack).
Pop(m) ==
  [m EXCEPT !.siblingIndices = PopRest(m.siblingIndices),
            !.stack = PopRest(m.stack)]

\* topSiblingIndex()
TopSiblingIndex(m) ==
  IF m.siblingIndices = <<>> THEN NoIndex
  ELSE m.siblingIndices[Len(m.siblingIndices)]

\* The handlers 0, 3, 4 and 11-15 are those of the first table, with
\* interpreter.top() for top(interpreter.stack).
\* 1
IdxRemoveSelfAndNextSiblings(m, mem, h) ==
  LET node == Top(m.stack)
      m1 == Pop(m)
  IN  IF ~IsNode(m.dom, node) THEN Throw(m1)
      ELSE LET gone == SelfAndNextSiblings(m.dom, node)
           IN  [m1 EXCEPT !.dom = RemoveAll(m.dom, Tail(gone) \o <<node>>)]

\* 2
IdxReplaceWith(m, mem, h) ==
  LET newNode == Top(m.stack)
      m1 == Pop(m)
      oldSiblingIndex == TopSiblingIndex(m1)
      oldNode == Top(m1.stack)
      m2 == Pop(m1)
  IN  IF ~IsNode(m.dom, oldNode) THEN Throw(m2)
      ELSE IF ParentNode(m.dom, oldNode) = Null
      THEN Push(m2, newNode, oldSiblingIndex)
      ELSE IF /\ IsNode(m.dom, newNode)
              /\ IsInclusiveAncestor(m.dom, newNode, ParentNode(m.dom, oldNode))
      THEN Throw(m2)
      ELSE Push([m2 EXCEPT !.dom = ReplaceWithDom(m.dom, oldNode, newNode)],
                newNode, oldSiblingIndex)

\* 5
IdxPushFirstChild(m, mem, h) ==
  LET node == Top(m.stack)
  IN  IF ~IsNode(m.dom, node) THEN Throw(m)
      ELSE Push(m, FirstChild(m.dom, node), Index(0))

\* 6
IdxPopPushNextSibling(m, mem, h) ==
  LET siblingIndex == TopSiblingIndex(m)
      node == Top(m.stack)
      m1 == Pop(m)
  IN  IF ~IsNode(m.dom, node) THEN Throw(m1)
      ELSE Push(m1, NextSibling(m.dom, node), Plus(siblingIndex, Index(1)))

\* 7
IdxPop(m, mem, h) == Pop(m)

\* 8
IdxAppendChild(m, mem, h) ==
  LET child == Top(m.stack)
      m1 == Pop(m)
      parent == Top(m1.stack)
  IN  IF \/ ~IsElement(m.dom, parent)
         \/ ~IsNode(m.dom, child)
         \/ IsInclusiveAncestor(m.dom, child, parent)
      THEN Throw(m1)
      ELSE [m1 EXCEPT !.dom = InsertNode(m.dom, parent, child, Null)]

\* 9
IdxCreateTextNode(m, mem, h) ==
  LET pointer == Mem32(mem, m.i)
      length == Mem32(mem, m.i + 1)
      text == String(mem, pointer, length)
  IN  Push([m EXCEPT !.dom = Append(m.dom, NewText(text)), !.i = m.i + 2],
           Len(m.dom) + 1, Index(-1))

\* 10
IdxCreateElement(m, mem, h) ==
  LET tagNameId == Mem32(mem, m.i)
      tagName == GetCachedString(m.strings, tagNameId)
  IN  IF ~ValidName(ToStr(tagName)) THEN Throw(m)
      ELSE Push([m EXCEPT !.dom = Append(m.dom, NewElement(ToStr(tagName), <<>>)),
                          !.i = m.i + 1],
                Len(m.dom) + 1, Index(-1))

\* 16
IdxCreateElementNS(m, mem, h) ==
  LET tagNameId == Mem32(mem, m.i)
      tagName == GetCachedString(m.strings, tagNameId)
      nsId == Mem32(mem, m.i + 1)
      ns == GetCachedString(m.strings, nsId)
  IN  IF ~ValidName(ToStr(tagName)) THEN Throw(m)
      ELSE Push([m EXCEPT
                   !.dom = Append(m.dom, NewElement(ToStr(tagName),
                                                    IF ns = UndefStr THEN <<>> ELSE ns)),
                   !.i = m.i + 2],
                Len(m.dom) + 1, Index(-1))

\* 17
IdxPushChild(m, mem, h) ==
  LET index == WordIndex(Mem32(mem, m.i))
      parent == Top(m.stack)
  IN  IF ~IsNode(m.dom, parent) THEN Throw(m)
      ELSE Push([m EXCEPT !.i = m.i + 1],
                ChildAtIndex(m.dom, parent, index), index)

\* 18
IdxPopPushSibling(m, mem, h) ==
  LET baseIndex == TopSiblingIndex(m)
      node == Top(m.stack)
      m1 == Pop(m)
      relativeIndex == WordIndex(Mem32(mem, m.i))
      absoluteIndex == Plus(baseIndex, relativeIndex)
  IN  IF ~IsNode(m.dom, node) THEN Throw(m1)
      ELSE IF ParentNode(m.dom, node) = Null THEN Throw(m1)
      ELSE Push([m1 EXCEPT !.i = m.i + 1],
                ChildAtIndex(m.dom, ParentNode(m.dom, node), absoluteIndex),
                absoluteIndex)

NumOpsIdx == 19

OpTableIdx(op, m, mem, h) ==
  CASE op = 0 -> OpSetText(m, mem, h)
    [] op = 1 -> IdxRemoveSelfAndNextSiblings(m, mem, h)
    [] op = 2 -> IdxReplaceWith(m, mem, h)
    [] op = 3 -> OpSetAttribute(m, mem, h)
    [] op = 4 -> OpRemoveAttribute(m, mem, h)
    [] op = 5 -> IdxPushFirstChild(m, mem, h)
    [] op = 6 -> IdxPopPushNextSibling(m, mem, h)
    [] op = 7 -> IdxPop(m, mem, h)
    [] op = 8 -> IdxAppendChild(m, mem, h)
    [] op = 9 -> IdxCreateTextNode(m, mem, h)
    [] op = 10 -> IdxCreateElement(m, mem, h)
    [] op = 11 -> OpNewEventListener(m, mem, h)
    [] op = 12 -> OpUpdateEventListener(m, mem, h)
    [] op = 13 -> OpRemoveEventListener(m, mem, h)
    [] op = 14 -> OpAddCachedString(m, mem, h)
    [] op = 15 -> OpDropCachedString(m, mem, h)
    [] op = 16 -> IdxCreateElementNS(m, mem, h)
    [] op = 17 -> IdxPushChild(m, mem, h)
    [] op = 18 -> IdxPopPushSibling(m, mem, h)
    [] OTHER -> Throw(m)

\* ---------------------------------------------------------------- inputs
\* The container's subtree when the interpreter is constructed:
\* <div id=container><div><p></p>a</div><p></p></div>.
Container == 1

InitDom ==
  << [NewElement(S_div, <<>>) EXCEPT !.children = <<2, 5>>],
     [NewElement(S_div, <<>>) EXCEPT !.children = <<3, 4>>],
     NewElement(S_p, <<>>),
     NewText(S_a),
     NewElement(S_p, <<>>) >>

\* The trampolines a host may pass to initEventsTrampoline (function
\* objects, told apart by identity).
Trampolines == {1, 2}

\* A memory image the guest writes: string data from byte 0, the change list
\* from byte DataBytes on.
DataA == S_click \o S_input \o S_hi
CodeWord == Len(DataA) \div 4

\* The change list of the image, one instruction per line; word CodeWord + k
\* of the memory holds element k + 1.
CodeA ==
  << 14, 0, 5, 1,       \* +0  addCachedString("click", 1)
     14, 5, 5, 2,       \* +4  addCachedString("input", 2)
     11, 1, 7, 8,       \* +8  newEventListener(1, 7, 8)
     12, 1, 9, 10,      \* +12 updateEventListener(1, 9, 10)
     11, 2, 5, 6,       \* +16 newEventListener(2, 5, 6)
     13, 1,             \* +20 removeEventListener(1)
     18, 0,             \* +22 pushChild(0)
     11, 1, 3, 4,       \* +24 newEventListener(1, 3, 4)
     24, 5,             \* +28 saveTemplate(5)
     17, 0, 0, 2,       \* +30 saveChildrenToTemporaries(0, 0, 2)
     19, 1,             \* +34 pushTemporary(1)
     9, 10, 2,          \* +36 createTextNode("hi")
     8,                 \* +39 appendChild
     7,                 \* +40 pop
     7,                 \* +41 pop
     8,                 \* +42 appendChild
     1,                 \* +43 removeSelfAndNextSiblings
     99 >>              \* +44 no opcode

ImageA == DataA \o WordsBytes(CodeA)

\* The (byte offset, byte length) pairs the guest may submit: the window of
\* the change list that starts at word first and holds words words.
Window(first, words) == <<4 * (CodeWord + first), 4 * words>>

RangeChoices ==
  { Window(0, 8),       \* cache "click" and "input"
    Window(0, 12),      \* ... and listen for click on the top
    Window(8, 4), Window(12, 4),
    Window(16, 4),      \* listen for input on the top
    Window(16, 6),      \* ... and stop listening for click
    Window(22, 8),      \* push child 0, listen for click on it, save it
                        \* as template 5
    Window(30, 6),      \* save children 0 and 1, push the second
    Window(36, 4),      \* create "hi" and append it
    Window(40, 3),      \* pop, pop, appendChild: throws
    Window(43, 1), Window(44, 1),
    Window(22, 0) }     \* an empty range

\* A second memory image, for the string cache and the templates, and the
\* containers it is run on: an empty one, and <div id=container><div>a</div>
\* </div>.
S_b == <<98>>

DomEmpty == << NewElement(S_div, <<>>) >>

DomB ==
  << [NewElement(S_div, <<>>) EXCEPT !.children = <<2>>],
     [NewElement(S_div, <<>>) EXCEPT !.children = <<3>>],
     NewText(S_a) >>

\* "div" at byte 0, "p" at 3, "value" at 4, "hi" at 9, "b" at 11
DataB == S_div \o S_p \o S_value \o S_hi \o S_b
CodeWordB == Len(DataB) \div 4

CodeB ==
  << 14, 0, 3, 1,       \* +0  addCachedString("div", 1)
     10, 1,             \* +4  createElement(1)
     8,                 \* +6  appendChild
     14, 3, 1, 1,       \* +7  addCachedString("p", 1)
     15, 1,             \* +11 dropCachedString(1)
     15, 3,             \* +13 dropCachedString(3)
     10, 1,             \* +15 createElement(1)
     7,                 \* +17 pop
     24, 7,             \* +18 saveTemplate(7)
     18, 0,             \* +20 pushChild(0)
     0, 9, 2,           \* +22 setText("hi")
     7,                 \* +25 pop
     25, 7,             \* +26 pushTemplate(7)
     18, 0,             \* +28 pushChild(0)
     0, 11, 1,          \* +30 setText("b")
     7,                 \* +33 pop
     25, 7,             \* +34 pushTemplate(7)
     11, 1, 5, 6 >>     \* +36 newEventListener(1, 5, 6)

ImageB == DataB \o WordsBytes(CodeB)

WindowB(first, words) == <<4 * (CodeWordB + first), 4 * words>>

RangeChoicesB ==
  { WindowB(0, 7),      \* cache "div", create a <div>, append it
    WindowB(7, 4),      \* cache "p" at 1
    WindowB(7, 10),     \* cache "p" at 1, drop 1, drop 3, look up 1
    WindowB(15, 3),     \* create an element of the tag cached at 1, pop
    WindowB(18, 2),     \* save the top as template 7
    WindowB(20, 8),     \* change the text of the top's child, push template 7
    WindowB(18, 18),    \* save, change the saved node, push, change the
                        \* copy, push again
    WindowB(36, 4) }

\* A third memory image for the first interpreter, for the attributes and
\* the moves of nodes, and its container:
\* <div id=container><div><p></p><input>a</div></div>.
DomT ==
  << [NewElement(S_div, <<>>) EXCEPT !.children = <<2>>],
     [NewElement(S_div, <<>>) EXCEPT !.children = <<3, 4, 5>>],
     NewElement(S_p, <<>>),
     NewElement(S_input, <<>>),
     NewText(S_a) >>

\* "value" at byte 0, "checked" at 5, "hi" at 12, "b" at 14, "p" at 15
DataT == S_value \o S_checked \o S_hi \o S_b \o S_p
CodeWordT == Len(DataT) \div 4

CodeT ==
  << 14, 0, 5, 2,       \* +0  addCachedString("value", 2)
     14, 12, 2, 3,      \* +4  addCachedString("hi", 3)
     14, 5, 7, 4,       \* +8  addCachedString("checked", 4)
     18, 1,             \* +12 pushChild(1)
     3, 2, 3,           \* +14 setAttribute(2, 3)
     3, 4, 3,           \* +17 setAttribute(4, 3)
     3, 3, 2,           \* +20 setAttribute(3, 2)
     3, 2, 9,           \* +23 setAttribute(2, 9)
     11, 2, 5, 6,       \* +26 newEventListener(2, 5, 6)
     7,                 \* +30 pop
     17, 0, 0, 3,       \* +31 saveChildrenToTemporaries(0, 0, 3)
     19, 1,             \* +35 pushTemporary(1)
     1,                 \* +37 removeSelfAndNextSiblings
     19, 0,             \* +38 pushTemporary(0)
     19, 2,             \* +40 pushTemporary(2)
     20,                \* +42 insertBefore
     19, 1,             \* +43 pushTemporary(1)
     20,                \* +45 insertBefore
     9, 14, 1,          \* +46 createTextNode("b")
     20,                \* +49 insertBefore
     17, 1, 0, 1,       \* +50 saveChildrenToTemporaries(1, 0, 1)
     17, 5, 2, 2,       \* +54 saveChildrenToTemporaries(5, 2, 2)
     19, 1,             \* +58 pushTemporary(1)
     9, 14, 1,          \* +60 createTextNode("b")
     8,                 \* +63 appendChild
     18, 4,             \* +64 pushChild(4)
     0, 12, 2 >>        \* +66 setText("hi")

ImageT == DataT \o WordsBytes(CodeT)

WindowT(first, words) == <<4 * (CodeWordT + first), 4 * words>>

RangeChoicesT ==
  { WindowT(0, 12),     \* cache "value", "hi" and "checked"
    WindowT(0, 26),     \* ... push the <input>, set four attributes
    WindowT(12, 8),     \* push the <input>, set value and checked
    WindowT(20, 6),     \* set hi="value" and value=(no string) on the top
    WindowT(26, 4),     \* listen on the top
    WindowT(31, 4),     \* save the three children of the top
    WindowT(31, 7),     \* ... push the second, remove it and what follows
    WindowT(35, 3),
    WindowT(38, 5),     \* push the first and the third, move the third
                        \* before the first
    WindowT(38, 8),     \* ... push the second, move it before the third
    WindowT(42, 1),     \* insertBefore on what the stack holds
    WindowT(46, 4),     \* create "b", insert it before the top
    WindowT(46, 2),     \* createTextNode with its operands cut off
    WindowT(50, 4),     \* save the first child in slot 1
    WindowT(50, 10),    \* ... save no child at all, push slot 1
    WindowT(60, 9) }    \* append a new "b", set the text of the fifth child

\* A memory image for the sibling-walk interpreter, and the containers it
\* is run on: <div id=container><p></p></div> and
\* <div id=container><p>a</p><p></p></div>.
DomP ==
  << [NewElement(S_div, <<>>) EXCEPT !.children = <<2>>],
     NewElement(S_p, <<>>) >>

DomPa ==
  << [NewElement(S_div, <<>>) EXCEPT !.children = <<2, 4>>],
     [NewElement(S_p, <<>>) EXCEPT !.children = <<3>>],
     NewText(S_a),
     NewElement(S_p, <<>>) >>

\* "click" at byte 0, "hi" at 5, "a" at 7
DataW == S_click \o S_hi \o S_a
CodeWordW == Len(DataW) \div 4

CodeW ==
  << 5,                 \* +0  pushFirstChild
     0, 5, 2,           \* +1  setText("hi")
     7,                 \* +4  pop
     6,                 \* +5  popPushNextSibling
     14, 0, 5, 1,       \* +6  addString("click", 1)
     11, 1, 3, 4,       \* +10 newEventListener(1, 3, 4)
     17, 1, 1 >>        \* +14 setAttributeNS(1, 1)

ImageW == DataW \o WordsBytes(CodeW)

WindowW(first, words) == <<4 * (CodeWordW + first), 4 * words>>

RangeChoicesW ==
  { WindowW(0, 5),      \* push the first child, set its text, pop
    WindowW(0, 1),
    WindowW(1, 3),      \* set the text of the top
    WindowW(1, 4),
    WindowW(4, 1),
    WindowW(5, 1),      \* go to the next sibling
    WindowW(6, 8),      \* cache "click", listen for it on the top
    WindowW(6, 11) }    \* ... and set the attribute click="click"

\* A memory image for the sibling-index interpreter, run on the third
\* container.
CodeI ==
  << 5,                 \* +0  pushFirstChild
     6,                 \* +1  popPushNextSibling
     7,                 \* +2  pop
     17, 1,             \* +3  pushChild(1)
     18, 1,             \* +5  popPushSibling(1)
     0, 5, 2,           \* +7  setText("hi")
     14, 0, 5, 1,       \* +10 addCachedString("click", 1)
     11, 1, 3, 4,       \* +14 newEventListener(1, 3, 4)
     10, 1,             \* +18 createElement(1)
     8,                 \* +20 appendChild
     2,                 \* +21 replaceWith
     1 >>               \* +22 removeSelfAndNextSiblings

ImageI == DataW \o WordsBytes(CodeI)

RangeChoicesI ==
  { WindowW(0, 1),      \* push the first child and leave it on the stack
    WindowW(0, 2),      \* ... go to its next sibling
    WindowW(0, 3),      \* ... pop
    WindowW(1, 1),      \* the next sibling of the top
    WindowW(2, 1),      \* pop
    WindowW(3, 2),      \* push child 1
    WindowW(3, 4),      \* ... go one sibling further
    WindowW(5, 2),
    WindowW(7, 3),      \* set the text of the top
    WindowW(10, 8),     \* cache "click", listen for it on the top
    WindowW(10, 11),    \* ... create a <click> and append it
    WindowW(21, 1),     \* replaceWith
    WindowW(22, 1) }    \* removeSelfAndNextSiblings

\* A memory image for the ChangeList of Listener objects, run on the two
\* containers of paragraphs: "click" at byte 0, "hi" at 5.
CodeL ==
  << 11, 0, 5, 3, 4,    \* +0  newEventListener("click", 3, 4)
     12, 0, 5, 7, 8,    \* +5  updateEventListener("click", 7, 8)
     13, 0, 5,          \* +10 removeEventListener("click")
     5,                 \* +13 pushFirstChild
     11, 5, 2, 1, 2,    \* +14 newEventListener("hi", 1, 2)
     7 >>               \* +19 pop

ImageL == DataW \o WordsBytes(CodeL)

RangeChoicesL ==
  { WindowW(0, 5),      \* listen for click on the top
    WindowW(0, 10),     \* ... and give the listener new payloads
    WindowW(0, 13),     \* ... and remove it
    WindowW(0, 20),     \* ... and listen for hi on its first child
    WindowW(5, 5),      \* new payloads for the click listener of the top
    WindowW(10, 3),     \* remove the click listener of the top
    WindowW(13, 7),     \* push the first child, listen for hi on it, pop
    WindowW(14, 5) }    \* listen for hi on the top

\* ---------------------------------------------------------------- state
VARIABLES
  dom,          \* the document's nodes
  memory,       \* the shared linear memory (memory.buffer)
  variant,      \* which of the interpreters of the sources this one is
  listeners,    \* this.listeners of the ChangeList of Listener objects:
                \* the Listener objects in it, by number
  heap,         \* that ChangeList's eventsTrampoline field, the Listener
                \* objects it has made and the element properties that
                \* point to them; history: the ones opcode 13 removed
  peer,         \* a second instance of the class on a container of its
                \* own: its trampoline, container, ranges, stack, strings,
                \* temporaries, templates and eventHandler fields
  trampoline,   \* this.trampoline
  container,    \* this.container
  ranges,       \* this.ranges: start, len, start, len, ...
  stack,        \* this.stack
  siblingIndices, \* this.siblingIndices (the sibling-index interpreter)
  strings,      \* this.strings
  temporaries,  \* this.temporaries
  templates,    \* this.templates
  nulled,       \* unmount has set container, ranges, stack, strings,
                \* temporaries and templates to null
  eventHandler, \* this.eventHandler: undefined, or the k-th closure made
  handlers,     \* handlers[k]: the trampoline the k-th closure captured
  mounted,      \* mounted[t]: the mounted property of trampoline t
  pc,           \* "idle", or "running" inside applyChanges
  ri,           \* applyChanges' index i into ranges
  ip,           \* applyChangeRange's word index i
  rangeIds,     \* history: beside each entry of ranges, the number of
                \* the addChangeListRange call that pushed it
  submitted,    \* history: addChangeListRange calls that returned
  commits,      \* history: applyChanges calls that pushed the first child
  thrown,       \* history: the commits (by number) that threw
  execLog,      \* history: <<range number, word index>> of every opcode
                \* the last commit has read
  ranIn,        \* history: ranIn[n].at, the commits before range n was
                \* submitted; ranIn[n].ran, the commits that executed it
  stored,       \* history: stored[<<el, type>>], the payloads <<a, b>>
                \* opcode 11 or 12 was last given for el and type
  cacheLog,     \* history: for every addCachedString and dropCachedString
                \* executed, in order, the id and the string given for it
                \* (undefined for a drop)
  saved,        \* history: saved[id], the structure the top node had when
                \* saveTemplate(id) was last executed
  last          \* history: the last operation and its outcome

fields == <<trampoline, container, ranges, stack, siblingIndices, strings,
            temporaries, templates, nulled, eventHandler>>
position == <<pc, ri, ip>>
history == <<rangeIds, submitted, commits, thrown, execLog, ranIn, stored,
             cacheLog, saved>>
aside == <<listeners, heap, peer>>
vars == <<dom, memory, variant, aside, fields, handlers, mounted, position, history, last>>

\* Bounds of the history: commits and closures over a run.
MaxCommits == 2
MaxInits == 2
\* Nodes the document may hold in a run on the second image.
MaxNodesB == 9

NodeBound == IF memory = ImageA THEN MaxNodes ELSE MaxNodesB

Outcome(op, outcome) ==
  [op |-> op, outcome |-> outcome, el |-> Null, type |-> <<>>, calls |-> <<>>,
   threw |-> 0]

\* No Listener object made, no eventsTrampoline given.
NoHeap ==
  [eventsTrampoline |-> Undefined, objs |-> <<>>, prop |-> EmptyMap,
   removed |-> {}]

\* No second instance: the fields of one that was never constructed.
NoPeer ==
  [trampoline |-> Null, container |-> Null, ranges |-> <<>>, stack |-> <<>>,
   strings |-> EmptyMap, temporaries |-> EmptyMap, templates |-> EmptyMap,
   eventHandler |-> Undefined]

\* The state after `new ChangeListInterpreter(container)`.
Init ==
  /\ dom = InitDom
  /\ memory = ImageA
  /\ variant = "temporaries"
  /\ peer = NoPeer
  /\ listeners = {}
  /\ heap = NoHeap
  /\ trampoline = Null
  /\ container = Container
  /\ ranges = <<>>
  /\ stack = <<>>
  /\ siblingIndices = <<>>
  /\ strings = EmptyMap
  /\ temporaries = EmptyMap
  /\ templates = EmptyMap
  /\ nulled = FALSE
  /\ eventHandler = Undefined
  /\ handlers = <<>>
  /\ mounted = [t \in Trampolines |-> "undefined"]
  /\ pc = "idle"
  /\ ri = 0
  /\ ip = 0
  /\ rangeIds = <<>>
  /\ submitted = 0
  /\ commits = 0
  /\ thrown = {}
  /\ execLog = <<>>
  /\ ranIn = <<>>
  /\ stored = EmptyMap
  /\ cacheLog = <<>>
  /\ saved = EmptyMap
  /\ last = Outcome("constructor", "returned")

\* ---------------------------------------------------------------- actions
\* addChangeListRange(start, len)
UnshiftRange(rs, start, len) == <<start, len>> \o rs
PushRange(rs, start, len) == Append(Append(rs, start), len)

AddChangeListRange(start, len) ==
  /\ pc = "idle"
  /\ IF nulled
     THEN /\ last' = Outcome("addChangeListRange", "threw")
          /\ UNCHANGED <<dom, memory, variant, aside, fields, handlers, mounted, position, history>>
     ELSE /\ submitted < MaxSubmit
          /\ ranges' = PushRange(ranges, start, len)
          /\ rangeIds' = PushRange(rangeIds, submitted + 1, submitted + 1)
          /\ submitted' = submitted + 1
          /\ ranIn' = Append(ranIn, [at |-> commits, ran |-> <<>>])
          /\ last' = Outcome("addChangeListRange", "returned")
          /\ UNCHANGED <<dom, memory, variant, aside, trampoline, container, stack,
                         siblingIndices, strings, temporaries, templates,
                         nulled, eventHandler, handlers, mounted, position,
                         commits, thrown, execLog, stored, cacheLog, saved>>

\* The loops of applyChanges and applyChangeRange: from word index i of the
\* range at index r of rs, the place of the next opcode to read, or done
\* when every range is exhausted.
SkipFailedRange == IF commits \in thrown /\ Len(ranges) > 2 THEN 2 ELSE 0

FirstRange == 0
NextRange(r) == r + 2
RangeFirstWord(rs, r) == rs[r + 1] \div 4
RangeEndWord(rs, r) == (rs[r + 1] + rs[r + 2]) \div 4

RECURSIVE NextPos(_, _, _)
NextPos(rs, r, i) ==
  IF ~(r < Len(rs)) THEN [done |-> TRUE, ri |-> r, ip |-> 0]
  ELSE IF i < RangeEndWord(rs, r) THEN [done |-> FALSE, ri |-> r, ip |-> i]
  ELSE IF ~(NextRange(r) < Len(rs)) THEN [done |-> TRUE, ri |-> NextRange(r), ip |-> 0]
  ELSE NextPos(rs, NextRange(r), RangeFirstWord(rs, NextRange(r)))

\* The numbers of the ranges applyChangeRange is called for when the loop
\* goes from index r (excluded) to index r2 (included).
Entered(ids, r, r2) ==
  {ids[j] : j \in {j \in 1..Len(ids) :
                     (j - 1) % 2 = 0 /\ j - 1 > r /\ j - 1 <= r2}}

RanIn(ran, ids, c) ==
  [n \in 1..Len(ran) |->
     IF n \in ids THEN [ran[n] EXCEPT !.ran = Append(@, c)] ELSE ran[n]]

\* The end of applyChanges: this.ranges.length = 0, this.stack.length = 0,
\* this.temporaries.length = 0.
KeepRanges(rs) == rs
KeepTemporaries(t) == t
ResetRanges(rs) == <<>>
ResetStack(s) == <<>>
ResetTemporaries(t) == EmptyMap

EndOfCommitClearingCaches(m) ==
  [m EXCEPT !.stack = <<>>, !.temporaries = EmptyMap,
            !.strings = EmptyMap, !.templates = EmptyMap]

\* The three assignments as one step on the machine state: the string cache
\* and the template cache are not among them.
EndOfCommit(m) ==
  [m EXCEPT !.stack = ResetStack(@), !.temporaries = ResetTemporaries(@)]

\* The end of applyChanges in the two other interpreters: this.ranges.length
\* = 0 and this.stack.length = 0, and nothing else.
EndOfCommitWalk(m) == [m EXCEPT !.stack = ResetStack(@)]
EndOfCommitIdx(m) == [m EXCEPT !.stack = ResetStack(@)]

\* ------------------------------------- the ChangeList of Listener objects
\* Its opcode table has 14 entries; strings are given by pointer and length.
\* The handlers 0-2 and 5-9 are those of the sibling-walk table.  The machine
\* state has two more fields: listeners (this.listeners) and heap.

\* What unmount gives a listener for a trampoline: a function that throws.
Thrower == -2

\* 3
LstSetAttribute(m, mem, h) ==
  LET name == String(mem, Mem32(mem, m.i), Mem32(mem, m.i + 1))
      value == String(mem, Mem32(mem, m.i + 2), Mem32(mem, m.i + 3))
      node == Top(m.stack)
  IN  IF ~IsElement(m.dom, node) \/ ~ValidName(name) THEN Throw(m)
      ELSE [m EXCEPT !.dom[node].attrs = MapSet(@, name, value),
                     !.i = m.i + 4]

\* 4
LstRemoveAttribute(m, mem, h) ==
  LET name == String(mem, Mem32(mem, m.i), Mem32(mem, m.i + 1))
      node == Top(m.stack)
  IN  IF ~IsElement(m.dom, node) THEN Throw(m)
      ELSE [m EXCEPT !.dom[node].attrs = MapDelete(@, name), !.i = m.i + 2]

\* 10
LstCreateElement(m, mem, h) ==
  LET tagName == String(mem, Mem32(mem, m.i), Mem32(mem, m.i + 1))
  IN  IF ~ValidName(tagName) THEN Throw(m)
      ELSE [m EXCEPT !.dom = Append(m.dom, NewElement(tagName, <<>>)),
                     !.stack = Append(m.stack, Len(m.dom) + 1),
                     !.i = m.i + 2]

\* new Listener(a, b, eventType, trampoline, el)
Listener(a, b, eventType, t, el) ==
  [a |-> a, b |-> b, eventType |-> eventType, trampoline |-> t, el |-> el]

\* 11: the Listener is made and added to the set before el is used.
LstNewEventListener(m, mem, h) ==
  LET eventType == String(mem, Mem32(mem, m.i), Mem32(mem, m.i + 1))
      a == Mem32(mem, m.i + 2)
      b == Mem32(mem, m.i + 3)
      el == Top(m.stack)
      listener == Len(m.heap.objs) + 1
      m1 == [m EXCEPT
               !.heap.objs = Append(@, Listener(a, b, eventType,
                                                m.heap.eventsTrampoline, el)),
               !.listeners = @ \cup {listener}]
  IN  IF ~IsNode(m.dom, el) THEN Throw(m1)
      ELSE [m1 EXCEPT
              !.dom[el].listeners = Append(@, <<eventType, listener>>),
              !.heap.prop = MapSet(@, <<el, eventType>>, listener),
              !.i = m.i + 4]

\* 12
LstUpdateEventListener(m, mem, h) ==
  LET eventType == String(mem, Mem32(mem, m.i), Mem32(mem, m.i + 1))
      el == Top(m.stack)
      listener == MapGet(m.heap.prop, <<el, eventType>>, Undefined)
  IN  IF ~IsNode(m.dom, el) \/ listener = Undefined THEN Throw(m)
      ELSE [m EXCEPT !.heap.objs[listener].a = Mem32(mem, m.i + 2),
                     !.heap.objs[listener].b = Mem32(mem, m.i + 3),
                     !.i = m.i + 4]

\* 13
LstRemoveEventListener(m, mem, h) ==
  LET eventType == String(mem, Mem32(mem, m.i), Mem32(mem, m.i + 1))
      el == Top(m.stack)
      listener == MapGet(m.heap.prop, <<el, eventType>>, Undefined)
  IN  IF ~IsNode(m.dom, el) \/ listener = Undefined THEN Throw(m)
      ELSE [m EXCEPT
              !.dom[el].listeners = RemoveEventListener(@, eventType, listener),
              !.listeners = @ \ {listener},
              !.heap.removed = @ \cup {listener},
              !.i = m.i + 2]

NumOpsLst == 14

OpTableLst(op, m, mem, h) ==
  CASE op = 0 -> OpSetText(m, mem, h)
    [] op = 1 -> OpRemoveSelfAndNextSiblings(m, mem, h)
    [] op = 2 -> OpReplaceWith(m, mem, h)
    [] op = 3 -> LstSetAttribute(m, mem, h)
    [] op = 4 -> LstRemoveAttribute(m, mem, h)
    [] op = 5 -> OpPushFirstChild(m, mem, h)
    [] op = 6 -> OpPopPushNextSibling(m, mem, h)
    [] op = 7 -> OpPop(m, mem, h)
    [] op = 8 -> OpAppendChild(m, mem, h)
    [] op = 9 -> OpCreateTextNode(m, mem, h)
    [] op = 10 -> LstCreateElement(m, mem, h)
    [] op = 11 -> LstNewEventListener(m, mem, h)
    [] op = 12 -> LstUpdateEventListener(m, mem, h)
    [] op = 13 -> LstRemoveEventListener(m, mem, h)
    [] OTHER -> Throw(m)

\* The interpreter that runs: OP_TABLE[op](this, mem8, mem32, i) and the end
\* of applyChanges are those of its source.
CallOp(op, m, mem, h) ==
  CASE variant = "temporaries" -> OpTable(op, m, mem, h)
    [] variant = "sibling-walk" -> OpTableWalk(op, m, mem, h)
    [] variant = "sibling-index" -> OpTableIdx(op, m, mem, h)
    [] variant = "listener-object" -> OpTableLst(op, m, mem, h)

Finish(m) ==
  CASE variant = "temporaries" -> EndOfCommit(m)
    [] variant = "sibling-walk" -> EndOfCommitWalk(m)
    [] variant = "sibling-index" -> EndOfCommitIdx(m)
    [] variant = "listener-object" -> EndOfCommitWalk(m)

\* What a throw out of applyChanges leaves of the fields: nothing catches
\* it, so each keeps what the opcode handler left.
ResetAfterThrow(m) == [m EXCEPT !.stack = <<>>, !.temporaries = EmptyMap]
AfterThrow(m) == m

ApplyChangesPushingFirst ==
  /\ pc = "idle"
  /\ ~nulled
  /\ Len(ranges) = 0
  /\ stack' = Append(stack, FirstChild(dom, container))
  /\ last' = Outcome("applyChanges", "returned")
  /\ UNCHANGED <<dom, memory, variant, aside, trampoline, container, ranges,
                 siblingIndices, strings, temporaries, templates, nulled,
                 eventHandler, handlers, mounted, position, history>>

\* applyChanges(memory), up to the first opcode
ApplyChanges ==
  /\ pc = "idle"
  /\ IF nulled
     THEN /\ last' = Outcome("applyChanges", "threw")
          /\ UNCHANGED <<dom, memory, variant, aside, fields, handlers, mounted, position, history>>
     ELSE IF Len(ranges) = 0
     THEN /\ last' = Outcome("applyChanges", "returned")
          /\ UNCHANGED <<dom, memory, variant, aside, fields, handlers, mounted, position, history>>
     ELSE LET pos == NextPos(ranges, FirstRange, RangeFirstWord(ranges, FirstRange))
              pushed == Append(stack, FirstChild(dom, container))
              end == Finish([dom |-> dom, stack |-> pushed,
                             siblingIndices |-> siblingIndices,
                             strings |-> strings,
                             temporaries |-> temporaries,
                             templates |-> templates, mem |-> memory,
                             i |-> 0, threw |-> FALSE])
          IN  /\ commits < MaxCommits
              /\ commits' = commits + 1
              /\ execLog' = <<>>
              /\ ranIn' = RanIn(ranIn, Entered(rangeIds, -1, pos.ri), commits + 1)
              /\ IF pos.done
                 THEN /\ ranges' = ResetRanges(ranges)
                      /\ stack' = end.stack
                      /\ temporaries' = end.temporaries
                      /\ strings' = end.strings
                      /\ templates' = end.templates
                      /\ rangeIds' = IF ranges' = <<>> THEN <<>> ELSE rangeIds
                      /\ pc' = "idle" /\ ri' = 0 /\ ip' = 0
                      /\ last' = Outcome("applyChanges", "returned")
                 ELSE /\ stack' = pushed
                      /\ pc' = "running" /\ ri' = pos.ri /\ ip' = pos.ip
                      /\ last' = Outcome("applyChanges", "running")
                      /\ UNCHANGED <<ranges, temporaries, rangeIds, strings,
                                     templates>>
              /\ UNCHANGED <<dom, memory, variant, aside, trampoline, container,
                             siblingIndices, nulled, eventHandler, handlers,
                             mounted, submitted, thrown, stored, cacheLog,
                             saved>>

\* One turn of applyChangeRange's loop: read the opcode at word ip, call its
\* handler, and go on to the next opcode, to the next range, or to the end
\* of applyChanges.
Step ==
  /\ pc = "running"
  /\ LET op == Mem32(memory, ip)
         m0 == [dom |-> dom, stack |-> stack,
                siblingIndices |-> siblingIndices, strings |-> strings,
                temporaries |-> temporaries, templates |-> templates,
                mem |-> memory, i |-> ip + 1, threw |-> FALSE]
         m1 == CallOp(op, m0, memory, eventHandler)
         left == AfterThrow(m1)
         pos == NextPos(ranges, ri, m1.i)
         end == Finish(m1)
     IN  /\ Len(m1.dom) <= NodeBound
         /\ execLog' = Append(execLog, <<rangeIds[ri + 1], ip>>)
         /\ thrown' = IF m1.threw THEN thrown \cup {commits} ELSE thrown
         /\ stored' =
              IF ~m1.threw /\ op \in {11, 12}
              THEN MapSet(stored,
                          <<Top(stack),
                            ToStr(GetCachedString(strings, Mem32(memory, ip + 1)))>>,
                          <<Mem32(memory, ip + 2), Mem32(memory, ip + 3)>>)
              ELSE stored
         /\ cacheLog' =
              IF ~m1.threw /\ op = 14
              THEN Append(cacheLog,
                          [id |-> Mem32(memory, ip + 3),
                           str |-> String(memory, Mem32(memory, ip + 1),
                                          Mem32(memory, ip + 2))])
              ELSE IF ~m1.threw /\ op = 15
              THEN Append(cacheLog, [id |-> Mem32(memory, ip + 1), str |-> UndefStr])
              ELSE cacheLog
         /\ saved' =
              IF ~m1.threw /\ op = 24
              THEN MapSet(saved, Mem32(memory, ip + 1), Shape(dom, Top(stack)))
              ELSE saved
         /\ memory' = m1.mem
         /\ IF m1.threw
            THEN /\ dom' = left.dom
                 /\ stack' = left.stack
                 /\ siblingIndices' = left.siblingIndices
                 /\ strings' = left.strings
                 /\ temporaries' = left.temporaries
                 /\ templates' = left.templates
                 /\ pc' = "idle" /\ ri' = 0 /\ ip' = 0
                 /\ last' = Outcome("applyChanges", "threw")
                 /\ UNCHANGED <<ranges, rangeIds, ranIn>>
            ELSE /\ dom' = m1.dom
                 /\ ranIn' = RanIn(ranIn, Entered(rangeIds, ri, pos.ri), commits)
                 /\ IF pos.done
                    THEN /\ ranges' = ResetRanges(ranges)
                         /\ stack' = end.stack
                         /\ siblingIndices' = end.siblingIndices
                         /\ temporaries' = end.temporaries
                         /\ strings' = end.strings
                         /\ templates' = end.templates
                         /\ rangeIds' = IF ranges' = <<>> THEN <<>> ELSE rangeIds
                         /\ pc' = "idle" /\ ri' = 0 /\ ip' = 0
                         /\ last' = Outcome("applyChanges", "returned")
                    ELSE /\ stack' = m1.stack
                         /\ siblingIndices' = m1.siblingIndices
                         /\ temporaries' = m1.temporaries
                         /\ strings' = m1.strings
                         /\ templates' = m1.templates
                         /\ pc' = "running" /\ ri' = pos.ri /\ ip' = pos.ip
                         /\ UNCHANGED <<ranges, rangeIds, last>>
         /\ UNCHANGED <<variant, aside, trampoline, container, nulled, eventHandler,
                        handlers, mounted, submitted, commits>>

\* initEventsTrampoline(trampoline).  A host binds a trampoline to an
\* interpreter that holds none (this.trampoline is null after the
\* constructor and after unmount).
InitEventsTrampoline(t) ==
  /\ pc = "idle"
  /\ trampoline = Null
  /\ Len(handlers) < MaxInits
  /\ trampoline' = t
  /\ mounted' = [mounted EXCEPT ![t] = "true"]
  /\ handlers' = Append(handlers, t)
  /\ eventHandler' = Len(handlers) + 1
  /\ last' = Outcome("initEventsTrampoline", "returned")
  /\ UNCHANGED <<dom, memory, variant, aside, container, ranges, stack,
                 siblingIndices, strings, temporaries, templates, nulled,
                 position, history>>

UnmountNullingFirst ==
  /\ pc = "idle"
  /\ container' = Null
  /\ ranges' = <<>>
  /\ stack' = <<>>
  /\ siblingIndices' = <<>>
  /\ strings' = EmptyMap
  /\ temporaries' = EmptyMap
  /\ templates' = EmptyMap
  /\ nulled' = TRUE
  /\ rangeIds' = <<>>
  /\ trampoline' = Null
  /\ IF trampoline = Null
     THEN /\ last' = Outcome("unmount", "threw")
          /\ UNCHANGED mounted
     ELSE /\ mounted' = [mounted EXCEPT ![trampoline] = "false"]
          /\ last' = Outcome("unmount", "returned")
  /\ UNCHANGED <<dom, memory, variant, aside, eventHandler, handlers, position,
                 submitted, commits, thrown, execLog, ranIn, stored,
                 cacheLog, saved>>

\* unmount(): this.trampoline.mounted = false throws on a null trampoline,
\* before any field is touched.
Unmount ==
  /\ pc = "idle"
  /\ IF trampoline = Null
     THEN /\ last' = Outcome("unmount", "threw")
          /\ UNCHANGED <<dom, memory, variant, aside, fields, handlers, mounted, position, history>>
     ELSE /\ mounted' = [mounted EXCEPT ![trampoline] = "false"]
          /\ trampoline' = Null
          /\ container' = Null
          /\ ranges' = <<>>
          /\ stack' = <<>>
          /\ siblingIndices' = <<>>
          /\ strings' = EmptyMap
          /\ temporaries' = EmptyMap
          /\ templates' = EmptyMap
          /\ nulled' = TRUE
          /\ rangeIds' = <<>>
          /\ last' = Outcome("unmount", "returned")
          /\ UNCHANGED <<dom, memory, variant, aside, eventHandler, handlers, position,
                         submitted, commits, thrown, execLog, ranIn, stored,
                         cacheLog, saved>>

EventHandlerSameKey(t, el, type) ==
  IF mounted[t] # "true" THEN <<>>
  ELSE << <<t, MapGet(dom[el].pa, type, Undefined),
               MapGet(dom[el].pa, type, Undefined)>> >>

\* The closure initEventsTrampoline made for trampoline t, called with
\* `this` the element el for an event of the given type: what it calls the
\* trampoline with (<<t, a, b>>), or <<>> when it throws.
EventHandler(t, el, type) ==
  IF mounted[t] # "true" THEN <<>>
  ELSE << <<t, MapGet(dom[el].pa, type, Undefined),
               MapGet(dom[el].pb, type, Undefined)>> >>

\* The listeners of el for the type, in registration order.
ListenersFor(el, type) ==
  SelectSeq(dom[el].listeners, LAMBDA l : l[1] = type)

RECURSIVE Dispatch(_, _, _)
Dispatch(ls, el, type) ==
  IF ls = <<>> THEN <<>>
  ELSE <<EventHandler(handlers[Head(ls)[2]], el, type)>>
       \o Dispatch(Tail(ls), el, type)

RECURSIVE Flatten(_)
Flatten(ss) == IF ss = <<>> THEN <<>> ELSE Head(ss) \o Flatten(Tail(ss))

DeliverEventTakingPayloads(el, k) ==
  /\ pc = "idle"
  /\ k \in 1..Len(dom[el].listeners)
  /\ LET type == dom[el].listeners[k][1]
         runs == Dispatch(ListenersFor(el, type), el, type)
     IN  /\ last' = [op |-> "event",
                     outcome |-> IF \E j \in 1..Len(runs) : runs[j] = <<>>
                                 THEN "threw" ELSE "returned",
                     el |-> el, type |-> type, calls |-> Flatten(runs),
                     threw |-> Cardinality({j \in 1..Len(runs) : runs[j] = <<>>})]
         /\ dom' = [dom EXCEPT ![el].pa = MapSet(@, type, Undefined),
                               ![el].pb = MapSet(@, type, Undefined)]
  /\ UNCHANGED <<memory, variant, aside, fields, handlers, mounted, position, history>>

\* The DOM delivers an event of some type to an element that has listeners
\* for it: each listener is called in turn, `this` the element (an
\* exception of one is reported and the next is called).
DeliverEvent(el, k) ==
  /\ pc = "idle"
  /\ k \in 1..Len(dom[el].listeners)
  /\ LET type == dom[el].listeners[k][1]
         runs == Dispatch(ListenersFor(el, type), el, type)
     IN  last' = [op |-> "event",
                  outcome |-> IF \E j \in 1..Len(runs) : runs[j] = <<>>
                              THEN "threw" ELSE "returned",
                  el |-> el, type |-> type, calls |-> Flatten(runs),
                  threw |-> Cardinality({j \in 1..Len(runs) : runs[j] = <<>>})]
  /\ UNCHANGED <<dom, memory, variant, aside, fields, handlers, mounted, position, history>>

\* The methods of the second instance.  A call of applyChanges runs to its
\* end before anything else happens: all its ranges in one step.
RECURSIVE RunRange(_, _, _)
RunRange(m, end, h) ==
  IF m.threw \/ ~(m.i < end) THEN m
  ELSE RunRange(CallOp(Mem32(memory, m.i), [m EXCEPT !.i = m.i + 1], memory, h),
                end, h)

RECURSIVE RunRanges(_, _, _, _)
RunRanges(m, rs, r, h) ==
  IF m.threw \/ ~(r < Len(rs)) THEN m
  ELSE RunRanges(RunRange([m EXCEPT !.i = RangeFirstWord(rs, r)],
                          RangeEndWord(rs, r), h),
                 rs, NextRange(r), h)

PeerAddChangeListRange(start, len) ==
  /\ pc = "idle"
  /\ peer.container # Null
  /\ Len(peer.ranges) < 2 * MaxSubmit
  /\ peer' = [peer EXCEPT !.ranges = PushRange(@, start, len)]
  /\ last' = Outcome("peer.addChangeListRange", "returned")
  /\ UNCHANGED <<dom, memory, variant, listeners, heap, fields, handlers, mounted, position, history>>

PeerApplyChanges ==
  /\ pc = "idle"
  /\ peer.container # Null
  /\ IF Len(peer.ranges) = 0
     THEN /\ last' = Outcome("peer.applyChanges", "returned")
          /\ UNCHANGED <<dom, peer>>
     ELSE LET m0 == [dom |-> dom,
                     stack |-> Append(peer.stack, FirstChild(dom, peer.container)),
                     siblingIndices |-> <<>>, strings |-> peer.strings,
                     temporaries |-> peer.temporaries,
                     templates |-> peer.templates, mem |-> memory,
                     i |-> 0, threw |-> FALSE]
              m1 == RunRanges(m0, peer.ranges, FirstRange, peer.eventHandler)
              end == Finish(m1)
          IN  /\ Len(m1.dom) <= NodeBound
              /\ dom' = m1.dom
              /\ peer' =
                   IF m1.threw
                   THEN [peer EXCEPT !.stack = m1.stack, !.strings = m1.strings,
                                     !.temporaries = m1.temporaries,
                                     !.templates = m1.templates]
                   ELSE [peer EXCEPT !.ranges = ResetRanges(@),
                                     !.stack = end.stack, !.strings = end.strings,
                                     !.temporaries = end.temporaries,
                                     !.templates = end.templates]
              /\ last' = Outcome("peer.applyChanges",
                                 IF m1.threw THEN "threw" ELSE "returned")
  /\ UNCHANGED <<memory, variant, listeners, heap, fields, handlers, mounted, position, history>>

PeerInitEventsTrampoline(t) ==
  /\ pc = "idle"
  /\ peer.container # Null
  /\ peer.trampoline = Null
  /\ Len(handlers) < MaxInits
  /\ peer' = [peer EXCEPT !.trampoline = t, !.eventHandler = Len(handlers) + 1]
  /\ mounted' = [mounted EXCEPT ![t] = "true"]
  /\ handlers' = Append(handlers, t)
  /\ last' = Outcome("peer.initEventsTrampoline", "returned")
  /\ UNCHANGED <<dom, memory, variant, listeners, heap, fields, position, history>>

\* The methods of the ChangeList of Listener objects; addChangeListRange is
\* the one above.  applyChanges runs to its end in one step.
ChangeListApplyChanges ==
  /\ pc = "idle"
  /\ IF nulled
     THEN /\ last' = Outcome("applyChanges", "threw")
          /\ UNCHANGED <<dom, listeners, heap, ranges, stack, rangeIds, commits,
                         thrown>>
     ELSE IF Len(ranges) = 0
     THEN /\ last' = Outcome("applyChanges", "returned")
          /\ UNCHANGED <<dom, listeners, heap, ranges, stack, rangeIds, commits,
                         thrown>>
     ELSE LET m0 == [dom |-> dom,
                     stack |-> Append(stack, FirstChild(dom, container)),
                     siblingIndices |-> siblingIndices, strings |-> strings,
                     temporaries |-> temporaries, templates |-> templates,
                     mem |-> memory, i |-> 0, threw |-> FALSE,
                     listeners |-> listeners, heap |-> heap]
              m1 == RunRanges(m0, ranges, FirstRange, Undefined)
              end == Finish(m1)
          IN  /\ commits < MaxCommits
              /\ Len(m1.dom) <= NodeBound
              /\ commits' = commits + 1
              /\ dom' = m1.dom
              /\ listeners' = m1.listeners
              /\ heap' = m1.heap
              /\ IF m1.threw
                 THEN /\ stack' = m1.stack
                      /\ thrown' = thrown \cup {commits + 1}
                      /\ last' = Outcome("applyChanges", "threw")
                      /\ UNCHANGED <<ranges, rangeIds>>
                 ELSE /\ stack' = end.stack
                      /\ ranges' = ResetRanges(ranges)
                      /\ rangeIds' = <<>>
                      /\ thrown' = thrown
                      /\ last' = Outcome("applyChanges", "returned")
  /\ UNCHANGED <<memory, variant, peer, trampoline, container, siblingIndices,
                 strings, temporaries, templates, nulled, eventHandler,
                 handlers, mounted, position, submitted, execLog, ranIn,
                 stored, cacheLog, saved>>

\* initEventsTrampoline(trampoline): the eventsTrampoline field becomes a
\* function that calls the trampoline.
ChangeListInitEventsTrampoline(t) ==
  /\ pc = "idle"
  /\ heap' = [heap EXCEPT !.eventsTrampoline = t]
  /\ last' = Outcome("initEventsTrampoline", "returned")
  /\ UNCHANGED <<dom, memory, variant, listeners, peer, fields, handlers,
                 mounted, position, history>>

\* A Set is iterated in insertion order: the Listener objects by number.
RECURSIVE Ascending(_)
Ascending(S) ==
  IF S = {} THEN <<>>
  ELSE LET x == CHOOSE x \in S : \A y \in S : x <= y
       IN  <<x>> \o Ascending(S \ {x})

KeepListeners(st, ids) == st

\* The loop of unmount over this.listeners: st.dom and st.objs as it leaves
\* them, st.threw when listener.el.removeEventListener threw (el is not a
\* node) and ended it.
RECURSIVE UnmountListeners(_, _)
UnmountListeners(st, ids) ==
  IF ids = <<>> THEN st
  ELSE LET listener == Head(ids)
           l == st.objs[listener]
       IN  IF ~IsNode(st.dom, l.el) THEN [st EXCEPT !.threw = TRUE]
           ELSE UnmountListeners(
                  [st EXCEPT
                     !.dom[l.el].listeners =
                        RemoveEventListener(@, l.eventType, listener),
                     !.objs[listener].trampoline = Thrower,
                     !.objs[listener].a = 0,
                     !.objs[listener].b = 0],
                  Tail(ids))

\* unmount(): `for (const listener of this.listeners)` throws on the null
\* the first unmount left.
ChangeListUnmount ==
  /\ pc = "idle"
  /\ IF nulled
     THEN /\ last' = Outcome("unmount", "threw")
          /\ UNCHANGED <<dom, listeners, heap, fields, rangeIds>>
     ELSE LET st == UnmountListeners([dom |-> dom, objs |-> heap.objs,
                                      threw |-> FALSE],
                                     Ascending(listeners))
          IN  /\ dom' = st.dom
              /\ heap' = [heap EXCEPT !.objs = st.objs]
              /\ IF st.threw
                 THEN /\ last' = Outcome("unmount", "threw")
                      /\ UNCHANGED <<listeners, fields, rangeIds>>
                 ELSE /\ listeners' = {}
                      /\ trampoline' = Null
                      /\ container' = Null
                      /\ ranges' = <<>>
                      /\ stack' = <<>>
                      /\ nulled' = TRUE
                      /\ rangeIds' = <<>>
                      /\ last' = Outcome("unmount", "returned")
                      /\ UNCHANGED <<siblingIndices, strings, temporaries,
                                     templates, eventHandler>>
  /\ UNCHANGED <<memory, variant, peer, handlers, mounted, position, submitted,
                 commits, thrown, execLog, ranIn, stored, cacheLog, saved>>

\* listener.callback(event): this.trampoline(event, this.a, this.b).  What
\* it calls the guest's trampoline with (<<t, a, b>>), or <<>> when it
\* throws: the trampoline field is undefined, or unmount's function.
ListenerCallback(l) ==
  IF l.trampoline \in Trampolines THEN << <<l.trampoline, l.a, l.b>> >>
  ELSE <<>>

RECURSIVE DispatchToListeners(_)
DispatchToListeners(ls) ==
  IF ls = <<>> THEN <<>>
  ELSE <<ListenerCallback(heap.objs[Head(ls)[2]])>>
       \o DispatchToListeners(Tail(ls))

\* The DOM delivers an event to an element with listeners for its type.
ChangeListDeliverEvent(el, k) ==
  /\ pc = "idle"
  /\ k \in 1..Len(dom[el].listeners)
  /\ LET type == dom[el].listeners[k][1]
         runs == DispatchToListeners(ListenersFor(el, type))
     IN  last' = [op |-> "event",
                  outcome |-> IF \E j \in 1..Len(runs) : runs[j] = <<>>
                              THEN "threw" ELSE "returned",
                  el |-> el, type |-> type, calls |-> Flatten(runs),
                  threw |-> Cardinality({j \in 1..Len(runs) : runs[j] = <<>>})]
  /\ UNCHANGED <<dom, memory, variant, aside, fields, handlers, mounted, position, history>>

\* After unmount addChangeListRange throws before it uses its arguments:
\* one pair stands for all of them.
SubmitChoices ==
  IF nulled THEN {Window(0, 8)}
  ELSE IF memory = ImageL THEN RangeChoicesL
  ELSE IF memory = ImageA THEN RangeChoices
  ELSE IF memory = ImageB THEN RangeChoicesB
  ELSE IF memory = ImageT THEN RangeChoicesT
  ELSE IF memory = ImageI THEN RangeChoicesI
  ELSE RangeChoicesW

Next ==
  \/ \E r \in SubmitChoices : AddChangeListRange(r[1], r[2])
  \/ ApplyChanges
  \/ Step
  \/ \E t \in Trampolines : InitEventsTrampoline(t)
  \/ Unmount
  \/ \E el \in 1..Len(dom) : \E k \in 1..Len(dom[el].listeners) : DeliverEvent(el, k)

Spec == Init /\ [][Next]_vars

\* The interpreter constructed on one of the two other containers, the
\* guest writing the second image.
InitB ==
  /\ dom \in {DomEmpty, DomB}
  /\ memory = ImageB
  /\ variant = "temporaries"
  /\ peer = NoPeer
  /\ listeners = {}
  /\ heap = NoHeap
  /\ trampoline = Null
  /\ container = Container
  /\ ranges = <<>>
  /\ stack = <<>>
  /\ siblingIndices = <<>>
  /\ strings = EmptyMap
  /\ temporaries = EmptyMap
  /\ templates = EmptyMap
  /\ nulled = FALSE
  /\ eventHandler = Undefined
  /\ handlers = <<>>
  /\ mounted = [t \in Trampolines |-> "undefined"]
  /\ pc = "idle"
  /\ ri = 0
  /\ ip = 0
  /\ rangeIds = <<>>
  /\ submitted = 0
  /\ commits = 0
  /\ thrown = {}
  /\ execLog = <<>>
  /\ ranIn = <<>>
  /\ stored = EmptyMap
  /\ cacheLog = <<>>
  /\ saved = EmptyMap
  /\ last = Outcome("constructor", "returned")

SpecB == InitB /\ [][Next]_vars

\* The first interpreter constructed on the third container, the guest
\* writing the third image.
InitT ==
  /\ dom = DomT
  /\ memory = ImageT
  /\ variant = "temporaries"
  /\ peer = NoPeer
  /\ listeners = {}
  /\ heap = NoHeap
  /\ trampoline = Null
  /\ container = Container
  /\ ranges = <<>>
  /\ stack = <<>>
  /\ siblingIndices = <<>>
  /\ strings = EmptyMap
  /\ temporaries = EmptyMap
  /\ templates = EmptyMap
  /\ nulled = FALSE
  /\ eventHandler = Undefined
  /\ handlers = <<>>
  /\ mounted = [t \in Trampolines |-> "undefined"]
  /\ pc = "idle"
  /\ ri = 0
  /\ ip = 0
  /\ rangeIds = <<>>
  /\ submitted = 0
  /\ commits = 0
  /\ thrown = {}
  /\ execLog = <<>>
  /\ ranIn = <<>>
  /\ stored = EmptyMap
  /\ cacheLog = <<>>
  /\ saved = EmptyMap
  /\ last = Outcome("constructor", "returned")

SpecT == InitT /\ [][Next]_vars

\* The sibling-walk interpreter constructed on one of its two containers.
InitW ==
  /\ dom \in {DomP, DomPa}
  /\ memory = ImageW
  /\ variant = "sibling-walk"
  /\ peer = NoPeer
  /\ listeners = {}
  /\ heap = NoHeap
  /\ trampoline = Null
  /\ container = Container
  /\ ranges = <<>>
  /\ stack = <<>>
  /\ siblingIndices = <<>>
  /\ strings = EmptyMap
  /\ temporaries = EmptyMap
  /\ templates = EmptyMap
  /\ nulled = FALSE
  /\ eventHandler = Undefined
  /\ handlers = <<>>
  /\ mounted = [t \in Trampolines |-> "undefined"]
  /\ pc = "idle"
  /\ ri = 0
  /\ ip = 0
  /\ rangeIds = <<>>
  /\ submitted = 0
  /\ commits = 0
  /\ thrown = {}
  /\ execLog = <<>>
  /\ ranIn = <<>>
  /\ stored = EmptyMap
  /\ cacheLog = <<>>
  /\ saved = EmptyMap
  /\ last = Outcome("constructor", "returned")

SpecW == InitW /\ [][Next]_vars

\* The sibling-index interpreter constructed on the third container or on
\* the one of two paragraphs.
InitI ==
  /\ dom \in {DomT, DomPa}
  /\ memory = ImageI
  /\ variant = "sibling-index"
  /\ peer = NoPeer
  /\ listeners = {}
  /\ heap = NoHeap
  /\ trampoline = Null
  /\ container = Container
  /\ ranges = <<>>
  /\ stack = <<>>
  /\ siblingIndices = <<>>
  /\ strings = EmptyMap
  /\ temporaries = EmptyMap
  /\ templates = EmptyMap
  /\ nulled = FALSE
  /\ eventHandler = Undefined
  /\ handlers = <<>>
  /\ mounted = [t \in Trampolines |-> "undefined"]
  /\ pc = "idle"
  /\ ri = 0
  /\ ip = 0
  /\ rangeIds = <<>>
  /\ submitted = 0
  /\ commits = 0
  /\ thrown = {}
  /\ execLog = <<>>
  /\ ranIn = <<>>
  /\ stored = EmptyMap
  /\ cacheLog = <<>>
  /\ saved = EmptyMap
  /\ last = Outcome("constructor", "returned")

SpecI == InitI /\ [][Next]_vars

\* Either of the two interpreters that walk by siblings, each on its
\* containers.
InitS == InitW \/ InitI

SpecS == InitS /\ [][Next]_vars

\* Two instances in one document, each on its own container
\* (<div><p></p></div> twice), the guest writing the image of "click".
DomTwo ==
  << [NewElement(S_div, <<>>) EXCEPT !.children = <<2>>],
     NewElement(S_p, <<>>),
     [NewElement(S_div, <<>>) EXCEPT !.children = <<4>>],
     NewElement(S_p, <<>>) >>

PeerContainer == 3

\* cache "click", listen for it on the top: opcodes 14 and 11
PeerRange == WindowW(6, 8)

InitP ==
  /\ dom = DomTwo
  /\ memory = ImageW
  /\ variant = "temporaries"
  /\ peer = [NoPeer EXCEPT !.container = PeerContainer]
  /\ listeners = {}
  /\ heap = NoHeap
  /\ trampoline = Null
  /\ container = Container
  /\ ranges = <<>>
  /\ stack = <<>>
  /\ siblingIndices = <<>>
  /\ strings = EmptyMap
  /\ temporaries = EmptyMap
  /\ templates = EmptyMap
  /\ nulled = FALSE
  /\ eventHandler = Undefined
  /\ handlers = <<>>
  /\ mounted = [t \in Trampolines |-> "undefined"]
  /\ pc = "idle"
  /\ ri = 0
  /\ ip = 0
  /\ rangeIds = <<>>
  /\ submitted = 0
  /\ commits = 0
  /\ thrown = {}
  /\ execLog = <<>>
  /\ ranIn = <<>>
  /\ stored = EmptyMap
  /\ cacheLog = <<>>
  /\ saved = EmptyMap
  /\ last = Outcome("constructor", "returned")

\* The hosts of the two instances: the first is given a trampoline and
\* unmounted, the second is given one and commits its listener, and the
\* document delivers events.
NextP ==
  \/ \E t \in Trampolines : InitEventsTrampoline(t)
  \/ Unmount
  \/ \E t \in Trampolines : PeerInitEventsTrampoline(t)
  \/ PeerAddChangeListRange(PeerRange[1], PeerRange[2])
  \/ PeerApplyChanges
  \/ \E el \in 1..Len(dom) : \E k \in 1..Len(dom[el].listeners) : DeliverEvent(el, k)

SpecP == InitP /\ [][NextP]_vars

\* The ChangeList of Listener objects after `new ChangeList(container)`.
InitL ==
  /\ dom \in {DomP, DomPa}
  /\ memory = ImageL
  /\ variant = "listener-object"
  /\ listeners = {}
  /\ heap = NoHeap
  /\ peer = NoPeer
  /\ trampoline = Null
  /\ container = Container
  /\ ranges = <<>>
  /\ stack = <<>>
  /\ siblingIndices = <<>>
  /\ strings = EmptyMap
  /\ temporaries = EmptyMap
  /\ templates = EmptyMap
  /\ nulled = FALSE
  /\ eventHandler = Undefined
  /\ handlers = <<>>
  /\ mounted = [t \in Trampolines |-> "undefined"]
  /\ pc = "idle"
  /\ ri = 0
  /\ ip = 0
  /\ rangeIds = <<>>
  /\ submitted = 0
  /\ commits = 0
  /\ thrown = {}
  /\ execLog = <<>>
  /\ ranIn = <<>>
  /\ stored = EmptyMap
  /\ cacheLog = <<>>
  /\ saved = EmptyMap
  /\ last = Outcome("constructor", "returned")

NextL ==
  \/ \E r \in SubmitChoices : AddChangeListRange(r[1], r[2])
  \/ ChangeListApplyChanges
  \/ \E t \in Trampolines : ChangeListInitEventsTrampoline(t)
  \/ ChangeListUnmount
  \/ \E el \in 1..Len(dom) : \E k \in 1..Len(dom[el].listeners) :
       ChangeListDeliverEvent(el, k)

SpecL == InitL /\ [][NextL]_vars

\* ---------------------------------------------------------------- claims
IsPrefix(s, t) == Len(s) <= Len(t) /\ SubSeq(t, 1, Len(s)) = s

Returned(op) == last.op = op /\ last.outcome = "returned"

\* C1: whenever applyChanges has returned normally, the traversal stack, the
\* pending ranges and the temporaries table are empty, whatever the ranges
\* held.
C1_ResetAfterCommit ==
  Returned("applyChanges") =>
    /\ stack = <<>>
    /\ ranges = <<>>
    /\ temporaries = EmptyMap

\* A commit that pushed entries and saved children to temporaries returned.
C1_Witness ==
  /\ Returned("applyChanges")
  /\ \E k \in 1..Len(execLog) : execLog[k][2] = CodeWord + 30
  /\ \E k \in 1..Len(execLog) : execLog[k][2] = CodeWord + 34

\* The commit has pushed the first child and is about to read its first
\* opcode.
AtFirstOpcode == pc = "running" /\ execLog = <<>>

\* C2 as claimed: at the first opcode of every commit the cursor holds
\* exactly one entry, the container's current first child, whatever happened
\* in earlier calls.
C2_Original ==
  AtFirstOpcode =>
    stack = << IF dom[container].children = <<>> THEN Null
               ELSE dom[container].children[1] >>

\* C2 as amended: at the first opcode of every commit the top of the cursor
\* is the container's current first child; it is the only entry unless the
\* applyChanges call before this one threw, which left its entries below.
C2_FirstChildOnTop ==
  AtFirstOpcode =>
    /\ stack # <<>>
    /\ stack[Len(stack)] = IF dom[container].children = <<>> THEN Null
                           ELSE dom[container].children[1]
    /\ (commits - 1) \notin thrown => Len(stack) = 1

\* A commit starts after an earlier commit changed the container's children
\* (the first child was removed: the container is empty).
C2_Witness ==
  /\ AtFirstOpcode
  /\ commits = 2
  /\ thrown = {}
  /\ dom[container].children # InitDom[Container].children

\* C3: in one applyChanges call the opcodes are read range by range in the
\* order of submission and, within a range, at increasing word indices.
C3_InOrder ==
  \A k \in 1..Len(execLog) - 1 :
    \/ execLog[k][1] < execLog[k + 1][1]
    \/ execLog[k][1] = execLog[k + 1][1] /\ execLog[k][2] < execLog[k + 1][2]

\* A commit of two ranges has read two opcodes of the first and one of the
\* second, which lies before the first in memory.
C3_Witness ==
  /\ Len(execLog) >= 3
  /\ execLog[1][1] = execLog[2][1]
  /\ \E k \in 2..Len(execLog) - 1 :
       execLog[k][1] < execLog[k + 1][1] /\ execLog[k][2] > execLog[k + 1][2]

\* C4: as long as no applyChanges call has thrown, a submitted range is
\* executed by the first commit after its submission and by no other.
C4_ExecutedOnce ==
  thrown = {} =>
    \A n \in 1..Len(ranIn) :
      /\ IsPrefix(ranIn[n].ran, <<ranIn[n].at + 1>>)
      /\ (pc = "idle" /\ commits > ranIn[n].at) => ranIn[n].ran = <<ranIn[n].at + 1>>

\* Two ranges submitted before and after a first commit have been executed,
\* the second commit has finished.
C4_Witness ==
  /\ thrown = {}
  /\ pc = "idle"
  /\ commits = 2
  /\ \E n \in 1..Len(ranIn) : ranIn[n].at = 0 /\ ranIn[n].ran = <<1>>
  /\ \E n \in 1..Len(ranIn) : ranIn[n].at = 1 /\ ranIn[n].ran = <<2>>

\* The step in which an opcode handler throws out of applyChanges.
ThrowStep == pc = "running" /\ last'.op = "applyChanges" /\ last'.outcome = "threw"

\* C5: when an opcode throws, applyChanges ends with the error: no reset is
\* made (the pending ranges, the temporaries and both caches are as before
\* the opcode, the stack is as the opcode's pops left it), and no later
\* opcode or range of the commit is executed.
C5_ThrowLeavesState ==
  /\ [][ThrowStep =>
          /\ pc' = "idle"
          /\ ranges' = ranges /\ ranges # <<>>
          /\ temporaries' = temporaries
          /\ strings' = strings
          /\ templates' = templates
          /\ dom' = dom
          /\ IsPrefix(stack', stack) /\ Len(stack') + 2 >= Len(stack)
          /\ ranIn' = ranIn]_vars
  /\ [][(pc = "idle" /\ last.op = "applyChanges" /\ last.outcome = "threw"
         /\ commits' = commits) => execLog' = execLog]_vars

\* A commit of two ranges threw in its first range: the second range was
\* not executed, the stack still holds an entry.
C5_Witness ==
  /\ last.op = "applyChanges" /\ last.outcome = "threw"
  /\ Len(ranges) = 4
  /\ stack # <<>>
  /\ \A k \in 1..Len(execLog) : execLog[k][1] = rangeIds[1]
  /\ ranIn[rangeIds[3]].ran = <<>>

PublicMethods ==
  {"addChangeListRange", "applyChanges", "initEventsTrampoline", "unmount"}

\* C6 as claimed: once unmount has returned, every call of a public method
\* of the interpreter throws.
C6_Original ==
  [][(nulled /\ last'.op \in PublicMethods) => last'.outcome = "threw"]_vars

\* C7 as claimed: after unmount, an event delivered to an element that holds
\* the shared handler makes every handler called throw, and no trampoline is
\* called.
C7_Original ==
  (nulled /\ last.op = "event") => (last.calls = <<>> /\ last.threw >= 1)

\* C8: while mounted, an event of type t delivered to an element e that
\* holds the handler opcode 11 registered for t makes the handler call the
\* trampoline exactly once, with the payloads opcode 11 or 12 last stored
\* for e and t.
C8_PayloadOfElement ==
  (last.op = "event" /\ ~nulled) =>
    LET key == <<last.el, last.type>>
    IN  /\ key \in DOMAIN stored
        /\ last.threw = 0
        /\ last.calls = << <<trampoline, stored[key][1], stored[key][2]>> >>

\* An event reached the second of two elements that listen for click with
\* different payloads.
C8_Witness ==
  /\ last.op = "event" /\ ~nulled
  /\ last.el = 3
  /\ last.type = S_click
  /\ last.calls = << <<trampoline, 3, 4>> >>
  /\ <<2, S_click>> \in DOMAIN stored
  /\ stored[<<2, S_click>>] = <<7, 8>>

\* The step in which opcode 12 is executed and returns.
UpdateStep ==
  pc = "running" /\ Mem32(memory, ip) = 12 /\ last'.outcome # "threw"

\* C9: updateEventListener changes nothing but the two payloads of the top
\* element for the event type, which become its operands: the listeners of
\* every node are as before, and so is every other node, the string cache
\* and the template cache.
C9_UpdateOnlyPayload ==
  [][UpdateStep =>
      LET el == stack[Len(stack)]
          type == ToStr(IF Mem32(memory, ip + 1) \in DOMAIN strings
                        THEN strings[Mem32(memory, ip + 1)] ELSE UndefStr)
      IN  /\ Len(dom') = Len(dom)
          /\ \A n \in 1..Len(dom) :
               /\ dom'[n].listeners = dom[n].listeners
               /\ n # el => dom'[n] = dom[n]
          /\ dom'[el] = [dom[el] EXCEPT
                           !.pa = MapSet(@, type, Mem32(memory, ip + 2)),
                           !.pb = MapSet(@, type, Mem32(memory, ip + 3))]
          /\ strings' = strings
          /\ templates' = templates]_vars

\* After newEventListener(click, 7, 8) and updateEventListener(click, 9, 10)
\* an event was delivered with the new payloads by the one listener.
C9_Witness ==
  /\ last.op = "event"
  /\ last.calls = << <<trampoline, 9, 10>> >>
  /\ Len(dom[last.el].listeners) = 1
  /\ \E k \in 1..Len(execLog) : execLog[k][2] = CodeWord + 12

RemoveStep ==
  pc = "running" /\ Mem32(memory, ip) = 13 /\ last'.outcome # "threw"

\* The event type an opcode at word ip names by its first operand.
TypeAtIp == ToStr(IF Mem32(memory, ip + 1) \in DOMAIN strings
                  THEN strings[Mem32(memory, ip + 1)] ELSE UndefStr)

\* C11 as claimed: after removeEventListener for type t on the top element
\* the element holds neither the shared handler for t nor the payloads a
\* and b for t.
C11_Original ==
  [][RemoveStep =>
      LET el == stack[Len(stack)]
      IN  /\ \A k \in 1..Len(dom'[el].listeners) :
               dom'[el].listeners[k][1] # TypeAtIp
          /\ TypeAtIp \notin DOMAIN dom'[el].pa
          /\ TypeAtIp \notin DOMAIN dom'[el].pb]_vars

\* C11: after removeEventListener for type t on the top element the shared
\* handler is no longer registered on it for t, the listeners for other
\* types are as before, and the payloads stored on the element, those for t
\* included, are untouched, as is every other node.
C11_HandlerRemovedPayloadKept ==
  [][RemoveStep =>
      LET el == stack[Len(stack)]
      IN  /\ Len(dom') = Len(dom)
          /\ \A k \in 1..Len(dom'[el].listeners) :
               dom'[el].listeners[k][1] # TypeAtIp
          /\ dom'[el].listeners =
               SelectSeq(dom[el].listeners, LAMBDA l : l[1] # TypeAtIp)
          /\ dom'[el].pa = dom[el].pa
          /\ dom'[el].pb = dom[el].pb
          /\ \A n \in 1..Len(dom) : n # el => dom'[n] = dom[n]]_vars

\* removeEventListener(click) has run on an element that listened for click
\* and for input: the click listener is gone, the input listener and the
\* click payloads are still there.
C11_Witness ==
  /\ \E k \in 1..Len(execLog) : execLog[k][2] = CodeWord + 20
  /\ dom[2].listeners = << <<S_input, eventHandler>> >>
  /\ S_click \in DOMAIN dom[2].pa
  /\ S_click \in DOMAIN dom[2].pb

\* The step that executes the opcode numbered op.
OpStep(op) == pc = "running" /\ Mem32(memory, ip) = op

\* C12: while the interpreter is mounted no step but a dropCachedString(id)
\* removes the string entry id, no step but an addCachedString(.., id) adds
\* or changes it, no step removes a template entry and no step but a
\* saveTemplate(id) adds or changes the template entry id: the end of a
\* commit and everything between two commits leave both caches as they are.
C12_CachesPersist ==
  [][~nulled' =>
      /\ \A id \in DOMAIN strings :
           id \notin DOMAIN strings' =>
             OpStep(15) /\ Mem32(memory, ip + 1) = id
      /\ \A id \in DOMAIN strings' :
           (id \notin DOMAIN strings \/ strings'[id] # strings[id]) =>
             OpStep(14) /\ Mem32(memory, ip + 3) = id
      /\ DOMAIN templates \subseteq DOMAIN templates'
      /\ \A id \in DOMAIN templates' :
           (id \notin DOMAIN templates \/ templates'[id] # templates[id]) =>
             OpStep(24) /\ Mem32(memory, ip + 1) = id]_vars

\* A first commit cached "div" at 1 and a second one saved template 7: both
\* commits have returned and both entries are there.
C12_Witness ==
  /\ Returned("applyChanges")
  /\ commits = 2
  /\ DOMAIN strings = {1}
  /\ strings[1] = S_div
  /\ DOMAIN templates = {7}

\* What the string cache should yield for id: the string of the last
\* addCachedString for id in the log, unless a dropCachedString for id came
\* after it.
RECURSIVE LastLogged(_, _)
LastLogged(log, id) ==
  IF log = <<>> THEN UndefStr
  ELSE IF log[Len(log)].id = id THEN log[Len(log)].str
  ELSE LastLogged(SubSeq(log, 1, Len(log) - 1), id)

CacheIds == {0, 1, 2, 3}

\* C13: the string cache is the map the executed addCachedString and
\* dropCachedString opcodes describe: looking up id yields the string of the
\* most recent addCachedString for id that no dropCachedString for id
\* followed, and nothing otherwise; ids never added, or dropped while
\* absent, are absent.
C13_CacheIsMap ==
  ~nulled =>
    /\ \A id \in CacheIds :
         (IF id \in DOMAIN strings THEN strings[id] ELSE UndefStr)
           = LastLogged(cacheLog, id)
    /\ DOMAIN strings \subseteq CacheIds
    /\ \A id \in DOMAIN strings : strings[id] # UndefStr

\* "div" was cached at 1 and replaced by "p"; then id 1 was dropped, then the
\* absent id 3, and the lookup of id 1 by createElement found nothing.
C13_Witness ==
  /\ Len(cacheLog) = 4
  /\ cacheLog[1] = [id |-> 1, str |-> S_div]
  /\ cacheLog[2] = [id |-> 1, str |-> S_p]
  /\ cacheLog[3] = [id |-> 1, str |-> UndefStr]
  /\ cacheLog[4] = [id |-> 3, str |-> UndefStr]
  /\ strings = EmptyMap
  /\ \E n \in 1..Len(dom) : dom[n].tag = S_undefined

\* String data for comparing the two forms of an opcode: "div" at byte 0,
\* "value" at 3, "checked" at 8, "selected" at 15, "a" at 23; the operands
\* follow from word CodeWordC on.
DataC == S_div \o S_value \o S_checked \o S_selected \o S_a
CodeWordC == Len(DataC) \div 4
StringsC == {<<0, 3>>, <<3, 5>>, <<8, 7>>, <<15, 8>>, <<23, 1>>, <<0, 0>>}
Volatile == {S_value, S_checked, S_selected}

\* The instructions compared: <<opcode, name, value>>, the value counting
\* for setAttribute only.
FormsC ==
  {<<3, n, <<23, 1>> >> : n \in StringsC}
    \cup {<<3, <<0, 3>>, <<0, 0>> >>, <<3, <<3, 5>>, <<3, 5>> >>}
    \cup {<<4, n, <<23, 1>> >> : n \in StringsC \ {<<23, 1>>, <<0, 0>>}}
    \cup {<<10, n, <<23, 1>> >> : n \in {<<0, 3>>, <<23, 1>>, <<0, 0>>}}

\* The machine state an opcode finds in the current state (pc = "running").
Machine ==
  [dom |-> dom, stack |-> stack, siblingIndices |-> siblingIndices,
   strings |-> strings, temporaries |-> temporaries, templates |-> templates,
   mem |-> memory, i |-> CodeWordC, threw |-> FALSE]

\* addCachedString(n, 1), addCachedString(v, 2), then the cached-string
\* form of the opcode with ids 1 and 2 (operands: words).
CachedForm(op, n, v) ==
  LET mem == DataC \o WordsBytes(<<n[1], n[2], 1, v[1], v[2], 2, 1, 2>>)
      m1 == OpAddCachedString(Machine, mem, eventHandler)
      m2 == OpAddCachedString(m1, mem, eventHandler)
  IN  OpTable(op, m2, mem, eventHandler)

\* The inline-string form of the opcode with the strings n and v.
InlineForm(op, n, v) ==
  LET mem == DataC \o WordsBytes(<<n[1], n[2], v[1], v[2]>>)
  IN  CASE op = 3 -> InlineSetAttribute(Machine, mem, eventHandler)
        [] op = 4 -> InlineRemoveAttribute(Machine, mem, eventHandler)
        [] op = 10 -> InlineCreateElement(Machine, mem, eventHandler)

SameEffect(a, b) == a.dom = b.dom /\ a.stack = b.stack /\ a.threw = b.threw

NodesOf(d, n) ==
  LET seq == SubtreeOf(d, n) IN {seq[k] : k \in 1..Len(seq)}

\* C15: saveTemplate(id) stores a copy of the top node made of new nodes
\* and structurally equal to it; pushTemplate(id) pushes a copy made of new
\* nodes (so neither the live node nor the stored prototype, nor sharing a
\* descendant with them) and structurally equal to the node as it was when
\* saved; neither changes an existing node; and whatever is done to the live
\* node or to pushed copies, the stored prototype keeps the structure the
\* node had when saved.
C15_TemplateCopies ==
  [][/\ ~nulled' =>
          \A id \in DOMAIN templates' :
            /\ id \in DOMAIN saved'
            /\ Shape(dom', templates'[id]) = saved'[id]
     /\ (OpStep(24) /\ last'.outcome # "threw") =>
          LET id == Mem32(memory, ip + 1)
              proto == templates'[id]
          IN  /\ Shape(dom', proto) = Shape(dom, stack[Len(stack)])
              /\ \A n \in NodesOf(dom', proto) : n > Len(dom)
              /\ \A n \in 1..Len(dom) : dom'[n] = dom[n]
     /\ (OpStep(25) /\ last'.outcome # "threw") =>
          LET id == Mem32(memory, ip + 1)
              copy == Len(dom) + 1
          IN  /\ Len(dom') > Len(dom)
              /\ pc' = "running" => stack' = Append(stack, copy)
              /\ Shape(dom', copy) = saved[id]
              /\ \A n \in NodesOf(dom', copy) : n > Len(dom)
              /\ \A n \in 1..Len(dom) : dom'[n] = dom[n]
              /\ templates' = templates]_vars

\* <div>a</div> was saved as template 7, its text changed to "hi", a first
\* copy pushed and its text changed to "b", and a second copy pushed: the
\* second copy reads "a", as does the prototype.
C15_Witness ==
  /\ Len(dom) = 9
  /\ 7 \in DOMAIN saved
  /\ dom[3].data = S_hi
  /\ dom[5].data = S_a
  /\ dom[7].data = S_b
  /\ dom[9].data = S_a
  /\ Shape(dom, 8) = saved[7]
  /\ Shape(dom, 6) # saved[7]
  /\ Shape(dom, 2) # saved[7]

\* The word at index w of the memory is no index of OP_TABLE.
NoOpcodeAt(w) == Mem32(memory, w) \notin 0..(NumOps - 1)

\* C16: when the word read as an opcode is no index of the opcode table,
\* applyChanges throws at that point: the DOM and every field of the
\* interpreter are as before the read, and the commit reads no further
\* opcode, of this range or of a later one.
C16_UnknownOpcodeThrows ==
  /\ [][(pc = "running" /\ NoOpcodeAt(ip)) =>
          /\ last'.op = "applyChanges" /\ last'.outcome = "threw"
          /\ pc' = "idle"
          /\ execLog' = Append(execLog, <<rangeIds[ri + 1], ip>>)
          /\ UNCHANGED <<dom, stack, strings, temporaries, templates, ranges>>]_vars
  /\ [][(execLog # <<>> /\ NoOpcodeAt(execLog[Len(execLog)][2])) =>
          (execLog' = execLog \/ commits' # commits)]_vars

\* The first of two pending ranges held the word 99: the commit threw on
\* reading it, with the first child still on the stack and both ranges
\* still pending.
C16_Witness ==
  /\ last.op = "applyChanges" /\ last.outcome = "threw"
  /\ execLog = << <<1, CodeWord + 44>> >>
  /\ Len(ranges) = 4
  /\ stack # <<>>

\* The word indexes, relative to the opcode word, of the string-id operands
\* of the opcode numbered op.
StringIdOperands(op) ==
  CASE op \in {3, 16} -> {1, 2}
    [] op \in {4, 10, 11, 12, 13, 23} -> {1}
    [] OTHER -> {}

\* The opcode about to be executed has a string-id operand that is not in
\* the string cache.
MissingStringId ==
  /\ pc = "running"
  /\ \E k \in StringIdOperands(Mem32(memory, ip)) :
       Mem32(memory, ip + k) \notin DOMAIN strings

\* C17 as claimed: an opcode with a string-id operand that is not in the
\* string cache makes applyChanges throw, and neither creates nor changes a
\* node.
C17_Original ==
  [][MissingStringId =>
      /\ last'.op = "applyChanges" /\ last'.outcome = "threw"
      /\ dom' = dom]_vars

\* The cursor entries the opcode numbered op takes off or reads below the
\* top: one for pop and removeSelfAndNextSiblings, two for replaceWith,
\* appendChild and insertBefore.
Consumes(op) ==
  CASE op \in {1, 7} -> 1
    [] op \in {2, 8, 20} -> 2
    [] OTHER -> 0

\* C18 as claimed: an opcode that consumes more cursor entries than the
\* stack holds makes applyChanges throw instead of going on.
C18_Original ==
  [][(pc = "running" /\ Len(stack) < Consumes(Mem32(memory, ip))) =>
      (last'.op = "applyChanges" /\ last'.outcome = "threw")]_vars

\* C19: applyChanges called on a mounted interpreter with no pending range
\* returns normally and changes nothing: the stack, the DOM, the memory,
\* the temporaries and both caches are as before, no commit begins and no
\* opcode is read.
C19_NoRangesNoEffect ==
  [][(pc = "idle" /\ ~nulled /\ ranges = <<>> /\ last'.op = "applyChanges") =>
      /\ last'.outcome = "returned"
      /\ UNCHANGED <<dom, memory, variant, stack, strings, temporaries, templates,
                     ranges, pc, commits, execLog>>]_vars

\* applyChanges has returned on an interpreter with a trampoline bound and
\* no range ever submitted.
C19_Witness ==
  /\ Returned("applyChanges")
  /\ submitted = 0
  /\ commits = 0
  /\ trampoline # Null
  /\ stack = <<>>

\* Create-and-attach: on the empty container (the document then holds the
\* container and the one node created), a first commit has ended that
\* executed addCachedString("div", 1), createElement(1), appendChild and
\* nothing else.
CreateAndAttach ==
  /\ pc = "idle"
  /\ ~nulled
  /\ last.op = "applyChanges"
  /\ commits = 1
  /\ Len(dom) = 2
  /\ execLog = << <<1, CodeWordB>>, <<1, CodeWordB + 4>>, <<1, CodeWordB + 6>> >>

\* C20 as claimed: create-and-attach on an empty container completes
\* normally, the container's first child is the new <div> and the stack is
\* empty.
C20_Original ==
  CreateAndAttach =>
    /\ last.outcome = "returned"
    /\ dom[Container].children = <<2>>
    /\ dom[2].tag = S_div
    /\ stack = <<>>

\* C20: create-and-attach on an empty container throws at appendChild: the
\* cursor holds null, the empty container's first child, under the new
\* <div>, so appendChild pops the <div> and fails on null; the container
\* stays empty, the <div> stays detached, the stack is left holding null
\* and the range stays pending.
C20_CreateAndAttachThrows ==
  CreateAndAttach =>
    /\ last.outcome = "threw"
    /\ dom[Container].children = <<>>
    /\ dom[2].kind = "element" /\ dom[2].tag = S_div
    /\ \A n \in 1..Len(dom) : ~InSeq(dom[n].children, 2)
    /\ stack = <<Null>>
    /\ ranges # <<>>
    /\ strings[1] = S_div

\* Create-and-attach has run on the empty container and the commit threw.
C20_Witness ==
  /\ CreateAndAttach
  /\ last.outcome = "threw"
  /\ Len(ranges) = 2

\* Set-text: on the container holding one empty <p>, a first commit has
\* ended that read pushFirstChild and setText("hi") (and pop, if it got
\* there) of the one range pushFirstChild, setText("hi"), pop.
SetTextScenario ==
  /\ pc = "idle"
  /\ ~nulled
  /\ variant = "sibling-walk"
  /\ last.op = "applyChanges"
  /\ commits = 1
  /\ submitted = 1
  /\ dom[Container].children = <<2>>
  /\ dom[2].tag = S_p
  /\ IsPrefix(<< <<1, CodeWordW>>, <<1, CodeWordW + 1>> >>, execLog)
  /\ IsPrefix(execLog, << <<1, CodeWordW>>, <<1, CodeWordW + 1>>,
                          <<1, CodeWordW + 4>> >>)

\* The text of an element whose children are text nodes.
RECURSIVE TextOf(_, _)
TextOf(d, ns) ==
  IF ns = <<>> THEN <<>> ELSE d[Head(ns)].data \o TextOf(d, Tail(ns))

\* C21 as claimed: the set-text commit completes normally and leaves the
\* container holding <p>hi</p>.
C21_Original ==
  SetTextScenario =>
    /\ last.outcome = "returned"
    /\ TextOf(dom, dom[2].children) = S_hi

\* C21: on the container holding one empty <p>, the set-text commit throws
\* at setText: the cursor starts at the <p>, so pushFirstChild pushes the
\* <p>'s first child, null, and setText fails on it; pop is not read, the
\* <p> stays empty, the stack is left holding the <p> and null and the range
\* stays pending.
C21_SetTextThrows ==
  SetTextScenario =>
    /\ last.outcome = "threw"
    /\ Len(execLog) = 2
    /\ dom = DomP
    /\ stack = <<2, Null>>
    /\ ranges # <<>>

\* The set-text commit has run on the empty <p> and has thrown.
C21_Witness ==
  /\ SetTextScenario
  /\ last.outcome = "threw"
  /\ dom[2].children = <<>>

\* A step of the first interpreter that runs setAttribute on the strings
\* cached at its two operands.
SetAttributeStep ==
  /\ OpStep(3)
  /\ variant = "temporaries"
  /\ Mem32(memory, ip + 1) \in DOMAIN strings
  /\ Mem32(memory, ip + 2) \in DOMAIN strings
  /\ IsElement(dom, Top(stack))

\* C22: setAttribute(nameId, valueId) on an element sets the attribute
\* name=value; for the name "value" it also sets the value property to the
\* value string, for "checked" the checked property to true, for "selected"
\* the selected property to true.  For every other name the three
\* properties are as before, and for each of the three names the two other
\* properties are as before.  No other attribute and no other node changes.
C22_SetAttribute ==
  [][SetAttributeStep =>
       LET node == Top(stack)
           name == strings[Mem32(memory, ip + 1)]
           value == strings[Mem32(memory, ip + 2)]
       IN  /\ thrown' = thrown
           /\ dom'[node].attrs = MapSet(dom[node].attrs, name, value)
           /\ dom'[node].value = IF name = S_value THEN value ELSE dom[node].value
           /\ dom'[node].checked =
                IF name = S_checked THEN "true" ELSE dom[node].checked
           /\ dom'[node].selected =
                IF name = S_selected THEN "true" ELSE dom[node].selected
           /\ name = S_value =>
                dom'[node].attrs[S_value] = value /\ dom'[node].value = value
           /\ dom' = [dom EXCEPT ![node].attrs = dom'[node].attrs,
                                 ![node].value = dom'[node].value,
                                 ![node].checked = dom'[node].checked,
                                 ![node].selected = dom'[node].selected]
           /\ stack' = stack \/ pc' = "idle"]_vars

\* setAttribute(2, 3) and setAttribute(4, 3) have run on the <input> with
\* "value", "hi" and "checked" cached: the <input> has the attribute and the
\* property value "hi", the attribute checked="hi" and checked true, and
\* selected was never written.
C22_Witness ==
  /\ execLog # <<>>
  /\ execLog[Len(execLog)][2] = CodeWordT + 17
  /\ strings = (2 :> S_value) @@ (3 :> S_hi) @@ (4 :> S_checked)
  /\ dom[4].attrs = (S_value :> S_hi) @@ (S_checked :> S_hi)
  /\ dom[4].value = S_hi
  /\ dom[4].checked = "true"
  /\ dom[4].selected = "unset"

\* C23: no step of applyChanges writes to the shared memory: the buffer is
\* the same after every step of every commit (and after every other
\* operation of the interpreter).
C23_MemoryReadOnly == [][memory' = memory]_vars

\* A commit has returned that read opcodes, created a text node and changed
\* the document, and the memory is the image the guest wrote.
C23_Witness ==
  /\ Returned("applyChanges")
  /\ commits >= 1
  /\ \E k \in 1..Len(execLog) : execLog[k][2] = CodeWordT + 46
  /\ Len(dom) > Len(DomT)
  /\ memory = ImageT

\* C24 as claimed: in the sibling-index interpreter the stack and the
\* sibling-index side-stack have the same length in every reachable state.
C24_Original ==
  (variant = "sibling-index" /\ ~nulled) => Len(stack) = Len(siblingIndices)

\* C25 as claimed: in the sibling-index interpreter the side-stack is empty
\* whenever applyChanges has returned normally.
C25_Original ==
  (variant = "sibling-index" /\ ~nulled /\ Returned("applyChanges")) =>
    siblingIndices = <<>>

\* The machine state the handler of the opcode at word ip is called on, and
\* the one it leaves.
Before ==
  [dom |-> dom, stack |-> stack, siblingIndices |-> siblingIndices,
   strings |-> strings, temporaries |-> temporaries, templates |-> templates,
   mem |-> memory, i |-> ip + 1, threw |-> FALSE]

After == CallOp(Mem32(memory, ip), Before, memory, eventHandler)

\* An opcode is read and its handler runs.
OpcodeStep == pc = "running" /\ execLog' # execLog

\* The words that step reads: the opcode and, when the handler returns, the
\* operands up to the index it returns.
WordsRead == IF After.threw THEN {ip} ELSE ip..(After.i - 1)

\* C26 as claimed: every word read while a range executes, as an opcode or
\* as an operand, lies in the range: its index is at least offset / 4 and
\* less than (offset + length) / 4.
C26_Original ==
  [][OpcodeStep =>
       \A w \in WordsRead :
         RangeFirstWord(ranges, ri) <= w /\ w < RangeEndWord(ranges, ri)]_vars

\* The operand words of each opcode of the first interpreter, as the claim
\* and the opcode table of the specification give them.
OperandWords(op) ==
  CASE op \in {1, 2, 7, 8, 20} -> 0
    [] op \in {4, 5, 6, 10, 13, 15, 18, 19, 21, 22, 23, 24, 25} -> 1
    [] op \in {0, 3, 9, 16} -> 2
    [] op \in {11, 12, 14, 17} -> 3

\* Word indices a handler is tried at: the one it is about to be called at,
\* and four more that give it other operand values.
TryAt ==
  {ip + 1, CodeWordT + 1, CodeWordT + 13, CodeWordT + 32, CodeWordT + 47}

\* C27: in every state a commit of the first interpreter goes through, each
\* of the 26 handlers, called at a word index w on that stack, document and
\* caches, either throws or returns w plus the operand words of its opcode,
\* whatever the operands at w are.
C27_FixedOperandWords ==
  (pc = "running" /\ variant = "temporaries") =>
    \A op \in 0..(NumOps - 1) : \A w \in TryAt :
      LET r == OpTable(op, [Before EXCEPT !.i = w], memory, eventHandler)
      IN  ~r.threw => r.i = w + OperandWords(op)

\* saveChildrenToTemporaries(0, 0, 3) has run and filled three slots, and
\* the next opcode was read at the word after its third operand.
C27_Witness ==
  /\ pc = "running"
  /\ variant = "temporaries"
  /\ DOMAIN temporaries = {0, 1, 2}
  /\ \E k \in 1..(Len(execLog) - 1) :
       /\ execLog[k][2] = CodeWordT + 31
       /\ execLog[k + 1] = <<execLog[k][1], CodeWordT + 35>>

\* The change of the stack depth the claim gives for each opcode of the
\* first interpreter.
DepthChange(op) ==
  CASE op \in {5, 9, 10, 16, 18, 19, 25} -> 1
    [] op \in {1, 2, 7, 8, 20} -> -1
    [] OTHER -> 0

\* C28 as claimed: every opcode of the first interpreter that completes
\* normally leaves the stack deeper by the fixed amount of its opcode.
C28_Original ==
  [][(OpcodeStep /\ variant = "temporaries" /\ ~After.threw) =>
       Len(After.stack) = Len(stack) + DepthChange(Mem32(memory, ip))]_vars

\* The stack a step that does not throw leaves, given what its handler
\* leaves: the end of the commit empties it.
StackLeft(s) == stack' = s \/ (pc' = "idle" /\ stack' = <<>>)

\* C29: removeSelfAndNextSiblings on a top node n pops n and detaches n and
\* every sibling after n: the children of n's former parent are the siblings
\* before n in their order, n and the siblings after it have no parent, and
\* every other node is as before (on a detached n, the whole document).
C29_RemoveSelfAndNextSiblings ==
  [][(OpStep(1) /\ variant = "temporaries" /\ IsNode(dom, Top(stack))) =>
       LET n == Top(stack)
           p == ParentNode(dom, n)
       IN  /\ thrown' = thrown
           /\ StackLeft(PopRest(stack))
           /\ IF p = Null THEN dom' = dom
              ELSE LET cs == dom[p].children
                       k == IndexOf(cs, n)
                   IN  /\ dom' = [dom EXCEPT ![p].children = SubSeq(cs, 1, k - 1)]
                       /\ \A j \in k..Len(cs) : ParentNode(dom', cs[j]) = Null]_vars

\* removeSelfAndNextSiblings has run on the <input>, the second of three
\* children: the <p> before it is the one child left, the <input> and the
\* text after it are detached.
C29_Witness ==
  /\ execLog # <<>>
  /\ execLog[Len(execLog)][2] = CodeWordT + 37
  /\ thrown = {}
  /\ dom[2].children = <<3>>
  /\ ParentNode(dom, 4) = Null
  /\ ParentNode(dom, 5) = Null
  /\ Len(dom) = Len(DomT)

\* The places of the document d where node n is a child.
PlacesOf(d, n) ==
  {pk \in (1..Len(d)) \X (1..Len(d)) :
     pk[2] <= Len(d[pk[1]].children) /\ d[pk[1]].children[pk[2]] = n}

\* C30: insertBefore on a top entry `before` and a next entry `after`, two
\* different nodes of which `after` has a parent that `before` does not
\* contain, pops both and pushes `before`; afterwards `before` is the child
\* right before `after` under after's parent and occurs once in the tree,
\* and every child list keeps the order of its other children.  With the
\* same node in both entries the document is left as it was.
C30_InsertBefore ==
  [][(OpStep(20) /\ variant = "temporaries"
        /\ IsNode(dom, Top(stack)) /\ IsNode(dom, Top(PopRest(stack)))
        /\ ParentNode(dom, Top(PopRest(stack))) # Null
        /\ ~IsInclusiveAncestor(dom, Top(stack),
                                ParentNode(dom, Top(PopRest(stack))))) =>
       LET before == Top(stack)
           after == Top(PopRest(stack))
           parent == ParentNode(dom, after)
           cs == dom'[parent].children
       IN  /\ thrown' = thrown
           /\ StackLeft(Append(PopRest(PopRest(stack)), before))
           /\ IF before = after THEN dom' = dom
              ELSE /\ InSeq(cs, after)
                   /\ IndexOf(cs, after) > 1
                   /\ cs[IndexOf(cs, after) - 1] = before
                   /\ Cardinality(PlacesOf(dom', before)) = 1
                   /\ Len(dom') = Len(dom)
                   /\ \A p \in 1..Len(dom) :
                        dom'[p] = [dom[p] EXCEPT !.children = dom'[p].children]
                   /\ \A p \in 1..Len(dom) :
                        Without(dom'[p].children, before)
                          = Without(dom[p].children, before)]_vars

\* insertBefore has run with the text node, the last of three children, as
\* `before` and the <p>, the first, as `after`: the text node has moved in
\* front of the <p>, the other two keep their order, and the text node is on
\* top of the stack over the cursor.
C30_Witness ==
  /\ pc = "running"
  /\ execLog # <<>>
  /\ execLog[Len(execLog)][2] = CodeWordT + 42
  /\ thrown = {}
  /\ dom[2].children = <<5, 3, 4>>
  /\ stack = <<2, 5>>

\* saveChildrenToTemporaries runs on a top entry that is a node.
SaveStep == OpStep(17) /\ variant = "temporaries" /\ IsNode(dom, Top(stack))

\* C31: saveChildrenToTemporaries(tempBase, start, end) on a top node stores
\* child number i of that node in slot tempBase + (i - start) for each i in
\* [start, end), leaves every other slot as it was, writes nothing when
\* start >= end and changes neither the stack nor the document; no other
\* opcode writes a slot while the commit runs, and pushTemporary(t) pushes
\* what slot t holds.
C31_SaveChildrenToTemporaries ==
  [][/\ SaveStep =>
          LET tempBase == Mem32(memory, ip + 1)
              start == Mem32(memory, ip + 2)
              end == Mem32(memory, ip + 3)
              cs == dom[Top(stack)].children
              slots == After.temporaries
              written == {tempBase + (i - start) : i \in start..(end - 1)}
          IN  /\ thrown' = thrown
              /\ StackLeft(stack)
              /\ dom' = dom
              /\ pc' = "running" => temporaries' = slots
              /\ \A i \in start..(end - 1) :
                   i < Len(cs) =>
                     /\ tempBase + (i - start) \in DOMAIN slots
                     /\ slots[tempBase + (i - start)] = cs[i + 1]
              /\ DOMAIN slots \ written = DOMAIN temporaries \ written
              /\ \A t \in DOMAIN slots \ written : slots[t] = temporaries[t]
              /\ start >= end => slots = temporaries
     /\ (OpcodeStep /\ variant = "temporaries" /\ Mem32(memory, ip) # 17
           /\ pc' = "running") => temporaries' = temporaries
     /\ (OpStep(19) /\ variant = "temporaries"
           /\ Mem32(memory, ip + 1) \in DOMAIN temporaries) =>
          /\ thrown' = thrown
          /\ dom' = dom
          /\ StackLeft(Append(stack, temporaries[Mem32(memory, ip + 1)]))]_vars

\* The three children were saved in slots 0, 1 and 2, the first child was
\* saved again in slot 1, a save with start = end wrote nothing, and
\* pushTemporary(1) has pushed the first child: slots 0 and 2 are as the
\* first save left them.
C31_Witness ==
  /\ execLog # <<>>
  /\ Len(execLog) >= 4
  /\ execLog[Len(execLog)][2] = CodeWordT + 58
  /\ execLog[Len(execLog) - 3][2] = CodeWordT + 31
  /\ thrown = {}
  /\ dom = DomT
  /\ last = Outcome("applyChanges", "returned")

SiblingVariant == variant \in {"sibling-walk", "sibling-index"}

\* The opcodes of the two sibling interpreters whose handlers use the top
\* entry: all but pop, createTextNode, createElement, addString, dropString
\* and createElementNS.
ReadsTop ==
  IF variant = "sibling-walk" THEN {0, 1, 2, 3, 4, 5, 6, 8, 11, 12, 13, 17}
  ELSE {0, 1, 2, 3, 4, 5, 6, 8, 11, 12, 13, 17, 18}

\* C32: in the two sibling interpreters pushFirstChild on a top node without
\* children does not throw and pushes null, changing nothing else; with null
\* on top only an opcode that uses the top entry throws.
C32_PushFirstChildOfChildless ==
  [][/\ (OpStep(5) /\ SiblingVariant /\ IsNode(dom, Top(stack))
           /\ dom[Top(stack)].children = <<>>) =>
          /\ thrown' = thrown
          /\ dom' = dom
          /\ StackLeft(Append(stack, Null))
     /\ (OpcodeStep /\ SiblingVariant /\ stack # <<>> /\ Top(stack) = Null
           /\ thrown' # thrown) =>
          Mem32(memory, ip) \in ReadsTop]_vars

\* pushFirstChild has run on the empty <p>: null is on top of the cursor,
\* nothing was thrown and the commit goes on.
C32_Witness ==
  /\ variant = "sibling-walk"
  /\ pc = "running"
  /\ execLog # <<>>
  /\ execLog[Len(execLog)][2] = CodeWordW
  /\ dom = DomP
  /\ stack = <<2, Null>>
  /\ thrown = {}

\* C33: in the sibling-index interpreter the sibling index recorded for the
\* entry applyChanges pushes at the start of a commit, the container's first
\* child, is 0.
C33_Original ==
  [][(variant = "sibling-index" /\ pc = "idle" /\ pc' = "running") =>
       /\ siblingIndices' # <<>>
       /\ siblingIndices'[Len(siblingIndices')] = Index(0)]_vars

\* C34: in the sibling-index interpreter, whenever the top entry is an
\* attached node with a recorded sibling index k other than -1, k is an
\* integer and the node is child number k of its parent.
C34_Original ==
  (/\ variant = "sibling-index"
   /\ pc = "running"
   /\ stack # <<>>
   /\ siblingIndices # <<>>
   /\ IsNode(dom, Top(stack))
   /\ ParentNode(dom, Top(stack)) # Null
   /\ siblingIndices[Len(siblingIndices)] # Index(-1)) =>
    LET k == siblingIndices[Len(siblingIndices)]
    IN  /\ IsNumber(k)
        /\ ChildAt(dom, ParentNode(dom, Top(stack)), k[1]) = Top(stack)

\* The last applyChanges call threw and no other was made since.
AfterFailedCommit == pc = "idle" /\ ~nulled /\ commits \in thrown

\* C35: a throw out of applyChanges leaves every pending range in place;
\* until the next applyChanges the pending ranges only grow at the end; the
\* next applyChanges starts at the first opcode of the first of them, a range
\* of the failed commit, and runs the ranges in the order they are held, so
\* that no range submitted after the failure runs before them.
C35_FailedCommitKeepsRanges ==
  [][/\ ThrowStep =>
          /\ ranges # <<>>
          /\ ranges' = ranges
          /\ rangeIds' = rangeIds
     /\ (AfterFailedCommit /\ commits' = commits /\ ~nulled') =>
          /\ IsPrefix(ranges, ranges')
          /\ IsPrefix(rangeIds, rangeIds')
     /\ (AfterFailedCommit /\ commits' = commits + 1) =>
          /\ ranges' = ranges
          /\ pc' = "running"
          /\ ri' = 0
          /\ ip' = ranges[1] \div 4
          /\ ranIn[rangeIds[1]].at < commits
          /\ commits \in {ranIn[rangeIds[1]].ran[j] :
                            j \in 1..Len(ranIn[rangeIds[1]].ran)}
     /\ (OpcodeStep /\ (commits - 1) \in thrown) =>
          /\ execLog'[1] = <<rangeIds[1], ranges[1] \div 4>>
          /\ \A j \in 1..Len(execLog') : \A k \in j..Len(execLog') :
               ranIn[execLog'[j][1]].at <= ranIn[execLog'[k][1]].at]_vars

\* The first commit threw in its one range (append "b", set the text of the
\* fifth child, of four), a second range was submitted after that, and the
\* second commit has run the first range again, to its end this time, and
\* then the second.
C35_Witness ==
  /\ commits = 2
  /\ 1 \in thrown
  /\ Len(ranIn) = 2
  /\ ranIn[1].at = 0
  /\ ranIn[2].at = 1
  /\ ranIn[1].ran = <<1, 2>>
  /\ ranIn[2].ran = <<2>>
  /\ execLog # <<>>
  /\ execLog[1][1] = 1
  /\ execLog[Len(execLog)][1] = 2

\* initEventsTrampoline was never called on the interpreter.
NeverInitialised == handlers = <<>>

\* C36: unmount() on an interpreter on which initEventsTrampoline was never
\* called throws and changes no field, so the instance is not unmounted: the
\* addChangeListRange that follows returns with its range pushed and the
\* applyChanges that follows does not throw on entry.
C36_UnmountWithoutTrampoline ==
  [][/\ (NeverInitialised /\ pc = "idle" /\ last'.op = "unmount") =>
          /\ last'.outcome = "threw"
          /\ ~nulled'
          /\ UNCHANGED <<trampoline, container, ranges, stack, strings,
                         temporaries, templates, eventHandler, mounted, dom>>
     /\ (NeverInitialised /\ pc = "idle" /\ last = Outcome("unmount", "threw")
           /\ last'.op = "addChangeListRange") =>
          /\ last'.outcome = "returned"
          /\ Len(ranges') = Len(ranges) + 2
          /\ SubSeq(ranges', 1, Len(ranges)) = ranges
     /\ (NeverInitialised /\ pc = "idle" /\ last = Outcome("unmount", "threw")
           /\ last'.op = "applyChanges") =>
          /\ last'.outcome # "threw"
          /\ ranges # <<>> => commits' = commits + 1]_vars

\* unmount has thrown on an interpreter that never had a trampoline, after a
\* commit that filled the string cache and with a range pending: all of it
\* is still there.
C36_Witness ==
  /\ NeverInitialised
  /\ last = Outcome("unmount", "threw")
  /\ ~nulled
  /\ container = Container
  /\ ranges # <<>>
  /\ strings # EmptyMap
  /\ commits = 1

\* The second instance has a trampoline and was never unmounted, and el is
\* an element its commit has registered its handler on.
PeerListensOn(el) ==
  /\ peer.trampoline # Null
  /\ IsNode(dom, el)
  /\ \E k \in 1..Len(dom[el].listeners) :
       dom[el].listeners[k][2] = peer.eventHandler

\* C37 as claimed: an event delivered to an element of a mounted instance
\* reaches that instance's trampoline, whether or not another instance was
\* unmounted and whether or not the two were given the same trampoline.
C37_Original ==
  [][(pc = "idle" /\ last'.op = "event" /\ PeerListensOn(last'.el)) =>
       /\ last'.outcome = "returned"
       /\ \E j \in 1..Len(last'.calls) : last'.calls[j][1] = peer.trampoline]_vars

\* C38: a delivery of an event, the shared handler running for it, changes
\* nothing of the interpreter (pending ranges, stack, temporaries, string
\* cache, template cache, trampoline, container) and nothing of the
\* document, the payloads stored on the elements included; each call it
\* makes of the trampoline carries the payloads stored on the element for
\* the event's type.
C38_EventHandlerReadsOnly ==
  [][(pc = "idle" /\ last'.op = "event") =>
       /\ UNCHANGED <<ranges, stack, siblingIndices, temporaries, strings,
                      templates, trampoline, container, nulled, eventHandler,
                      mounted, dom, memory, rangeIds>>
       /\ \A j \in 1..Len(last'.calls) :
            /\ last'.calls[j][2] = MapGet(dom[last'.el].pa, last'.type, Undefined)
            /\ last'.calls[j][3] = MapGet(dom[last'.el].pb, last'.type, Undefined)]_vars

\* An event was delivered, and passed on to the trampoline, between an
\* addChangeListRange and the applyChanges for it: the range is pending and
\* the string cache holds what the commit before left.
C38_Witness ==
  /\ last.op = "event"
  /\ last.outcome = "returned"
  /\ last.calls # <<>>
  /\ ranges # <<>>
  /\ strings # EmptyMap
  /\ commits = 1
  /\ ~nulled

\* The Listener objects that newEventListener made and removeEventListener
\* did not remove.
LiveListeners == (1..Len(heap.objs)) \ heap.removed

RegisteredOn(el, id) ==
  \E k \in 1..Len(dom[el].listeners) : dom[el].listeners[k][2] = id

====
